---- MODULE Spec2Model ----
(***************************************************************************)
(* A model of the five agents of the Figma-to-code pipeline:               *)
(*   FigmaParserAgent, DesignAnalyzerAgent, EDSMapperAgent,                *)
(*   LLMOrchestratorAgent and CodeValidatorAgent.                          *)
(* Each agent is an object with private fields (the VARIABLES) and public  *)
(* methods (the actions).  Every agent has its own specification, in which *)
(* the other agents' fields stay as constructed.                           *)
(*                                                                         *)
(* Conventions:                                                            *)
(*  - a JavaScript object is a function from its present keys to values,   *)
(*    so `x.k !== undefined` is  "k" \in DOMAIN x;                         *)
(*  - `null` of an object-typed field is None (the empty sequence) and a   *)
(*    present object x is Some(x);                                         *)
(*  - node ids are the integers 1..n (distinct within a document, as the   *)
(*    data model requires); the parentId null is NoParent = 0;             *)
(*  - confidences are in hundredths (85 is 0.85), the validator's scores  *)
(*    in thousandths;                                                      *)
(*  - a derived id such as `fill-${node.id}-${fill.type}` is the tuple     *)
(*    <<"fill", id, type>>.                                                *)
(***************************************************************************)
EXTENDS Integers, Sequences, FiniteSets, TLC

VARIABLES
  \* FigmaParserAgent
  designTree, flattenedNodes, extractedStyles, components, parserCall, parserCalls,
  \* DesignAnalyzerAgent
  aDesignTree, aFlattenedNodes, aStyles, aComponents, patterns, styleIssues,
  analyzerCall, analyzerPrev, analyzerCalls,
  \* EDSMapperAgent
  edsLibrary, figmaComponents, figmaNodes, detectedPatterns, componentMappings,
  mapperCall, libraryCall,
  \* LLMOrchestratorAgent
  mappings, promptTemplates, frameworkConfig, orchestratorCall,
  \* CodeValidatorAgent
  generatedCode, validationIssues, framework, validatorCall, validatorCalls,
  \* a call of a private method on its own: its arguments and what it returned
  helperCall

parserVars == <<designTree, flattenedNodes, extractedStyles, components, parserCall,
                parserCalls>>
analyzerVars == <<aDesignTree, aFlattenedNodes, aStyles, aComponents, patterns,
                  styleIssues, analyzerCall, analyzerPrev, analyzerCalls>>
mapperVars == <<edsLibrary, figmaComponents, figmaNodes, detectedPatterns,
                componentMappings, mapperCall, libraryCall>>
orchestratorVars == <<mappings, promptTemplates, frameworkConfig, orchestratorCall>>
validatorVars == <<generatedCode, validationIssues, framework, validatorCall,
                   validatorCalls>>
helperVars == <<helperCall>>
vars == <<parserVars, analyzerVars, mapperVars, orchestratorVars, validatorVars,
          helperVars>>

----------------------------------------------------------------------------
(* Generic helpers *)

None == <<>>
Some(x) == <<x>>
NoParent == 0
EmptyObject == [k \in {} |-> 0]

Has(obj, k) == k \in DOMAIN obj
Put(obj, k, v) == [x \in DOMAIN obj \cup {k} |-> IF x = k THEN v ELSE obj[x]]
Range(s) == {s[i] : i \in DOMAIN s}

RECURSIVE SeqFilterIdx(_, _, _)
\* the indexes i >= from of s, in order, for which keep[i] holds
SeqFilterIdx(keep, from, n) ==
  IF from > n THEN <<>>
  ELSE (IF keep[from] THEN <<from>> ELSE <<>>) \o SeqFilterIdx(keep, from + 1, n)

\* Array.prototype.filter
Filter(s, Test(_)) ==
  LET keep == [i \in DOMAIN s |-> Test(s[i])]
      idx == SeqFilterIdx(keep, 1, Len(s))
  IN [j \in 1..Len(idx) |-> s[idx[j]]]

\* Array.prototype.map
Map(s, F(_)) == [i \in DOMAIN s |-> F(s[i])]

RECURSIVE Flat(_)
\* concatenation of a sequence of sequences
Flat(ss) == IF ss = <<>> THEN <<>> ELSE Head(ss) \o Flat(Tail(ss))

RECURSIVE SortedSeq(_)
\* the members of a finite set of integers in increasing order
SortedSeq(S) ==
  IF S = {} THEN <<>>
  ELSE LET m == CHOOSE x \in S : \A y \in S : x <= y
       IN <<m>> \o SortedSeq(S \ {m})

----------------------------------------------------------------------------
(* Strings that the code inspects are sequences of one-character strings *)

UpperToLower ==
  [A |-> "a", B |-> "b", C |-> "c", D |-> "d", E |-> "e", F |-> "f", G |-> "g",
   H |-> "h", I |-> "i", J |-> "j", K |-> "k", L |-> "l", M |-> "m", N |-> "n",
   O |-> "o", P |-> "p", Q |-> "q", R |-> "r", S |-> "s", T |-> "t", U |-> "u",
   V |-> "v", W |-> "w", X |-> "x", Y |-> "y", Z |-> "z"]

\* String.prototype.toLowerCase
toLowerCase(str) ==
  [i \in DOMAIN str |-> IF str[i] \in DOMAIN UpperToLower THEN UpperToLower[str[i]]
                        ELSE str[i]]

\* String.prototype.includes
includes(str, sub) ==
  \E i \in 0..(Len(str) - Len(sub)) : SubSeq(str, i + 1, i + Len(sub)) = sub

\* name.toLowerCase().includes(word)
NameHas(name, word) == includes(toLowerCase(name), word)

W_button == <<"b", "u", "t", "t", "o", "n">>
W_btn == <<"b", "t", "n">>
W_input == <<"i", "n", "p", "u", "t">>
W_field == <<"f", "i", "e", "l", "d">>
W_textfield == <<"t", "e", "x", "t", " ", "f", "i", "e", "l", "d">>
W_card == <<"c", "a", "r", "d">>
W_nav == <<"n", "a", "v">>
W_navigation == <<"n", "a", "v", "i", "g", "a", "t", "i", "o", "n">>
W_menu == <<"m", "e", "n", "u">>
W_sidebar == <<"s", "i", "d", "e", "b", "a", "r">>
W_header == <<"h", "e", "a", "d", "e", "r">>
W_footer == <<"f", "o", "o", "t", "e", "r">>
W_vertical == <<"v", "e", "r", "t", "i", "c", "a", "l">>
W_link == <<"l", "i", "n", "k">>
W_item == <<"i", "t", "e", "m">>
W_layout == <<"l", "a", "y", "o", "u", "t">>
W_container == <<"c", "o", "n", "t", "a", "i", "n", "e", "r">>
W_grid == <<"g", "r", "i", "d">>
W_flex == <<"f", "l", "e", "x">>
W_email == <<"e", "m", "a", "i", "l">>
W_password == <<"p", "a", "s", "s", "w", "o", "r", "d">>
W_number == <<"n", "u", "m", "b", "e", "r">>
W_search == <<"s", "e", "a", "r", "c", "h">>

N_Button == <<"B", "u", "t", "t", "o", "n">>
N_Label == <<"L", "a", "b", "e", "l">>
N_Panel == <<"P", "a", "n", "e", "l">>
N_NavItem == <<"N", "a", "v", " ", "I", "t", "e", "m">>
N_Card == <<"C", "a", "r", "d">>
N_SidebarMenu == <<"S", "i", "d", "e", "b", "a", "r", " ", "M", "e", "n", "u">>
N_EmailField == <<"E", "m", "a", "i", "l", " ", "F", "i", "e", "l", "d">>
N_GridLayout == <<"G", "r", "i", "d", " ", "L", "a", "y", "o", "u", "t">>
N_Design == <<"D", "e", "s", "i", "g", "n">>
N_Layout == <<"L", "a", "y", "o", "u", "t">>

\* Lengths and sizes are in half pixels, so that 15.5 is a value; alphas and
\* opacities are in hundredths; colour channels are in 1/510, so that
\* Math.round(channel * 255) rounds.
Px(n) == 2 * n
\* Math.round of a non-negative length, in half pixels
RoundPx(h) == 2 * ((h + 1) \div 2)
\* Math.round(channel * 255)
Round255(c) == (c + 1) \div 2

----------------------------------------------------------------------------
(* FigmaParserAgent: the raw documents it is given *)

MaxNodes == 3
MaxParses == 2

\* a null entry of a `children` array
JsonNull == [null |-> TRUE]

Rgba(r, g, b, a) == [r |-> 2 * r, g |-> 2 * g, b |-> 2 * b, a |-> a]
SolidRed == [type |-> "SOLID", color |-> Rgba(255, 0, 0, 100)]
SolidBlue == [type |-> "SOLID", visible |-> TRUE, color |-> Rgba(0, 0, 255, 100)]
HiddenGradient == [type |-> "GRADIENT_LINEAR", visible |-> FALSE]
DropShadow == [type |-> "DROP_SHADOW", radius |-> Px(4), offset |-> [x |-> 0, y |-> Px(2)]]

\* a component node with two visible fills of one type, a hidden fill and an effect
KComponent ==
  [name |-> N_Button, type |-> "COMPONENT",
   fills |-> <<SolidRed, SolidBlue, HiddenGradient>>,
   effects |-> <<DropShadow>>, cornerRadius |-> Px(4), itemSpacing |-> 0]
\* a text node (letterSpacing 0 is falsy and is not copied)
KText ==
  [name |-> N_Label, type |-> "TEXT", characters |-> "Submit", fontSize |-> Px(14),
   letterSpacing |-> 0, fills |-> <<SolidRed>>]

ParserKinds == {KComponent, KText, JsonNull}

\* parent[i] < i is the parent of node i in the raw tree, 0 for a page
ParentFns(n) == {p \in [1..n -> 0..MaxNodes] : \A i \in 1..n : p[i] < i}

\* The documents with a `document.children` list: n nodes, ids 1..n, the
\* children of a node in increasing id order; a null entry has no children.
KindFns(kinds, n, p) ==
  {k \in [1..n -> kinds] : \A i \in 1..n : p[i] # 0 => k[p[i]] # JsonNull}
TreeDoc(p, k) ==
  [shape |-> "tree", name |-> N_Design, n |-> Len(p), parent |-> p, kind |-> k]
TreeDocsOf(kinds, n) ==
  UNION {{TreeDoc(p, k) : k \in KindFns(kinds, n, p)} : p \in ParentFns(n)}
TreeDocs == UNION {TreeDocsOf(ParserKinds, n) : n \in 0..MaxNodes}

\* `{}` (no `document`) and `{document: {}}` (no `document.children`)
NoDocument == [shape |-> "noDocument"]
NoChildren == [shape |-> "noChildren"]
JsonDocs == TreeDocs \cup {NoDocument, NoChildren}

\* node.children of raw node i (the pages for i = 0), as ids
RawChildren(json, i) == SortedSeq({j \in 1..json.n : json.parent[j] = i})
IsNullNode(json, i) == json.kind[i] = JsonNull
CountNodes(json) == json.n

----------------------------------------------------------------------------
(* FigmaParserAgent.flattenNodes *)

NumericKeys == {"paddingLeft", "paddingRight", "paddingTop", "paddingBottom",
                "itemSpacing", "strokeWeight", "cornerRadius", "opacity",
                "fontSize", "letterSpacing", "lineHeight"}
StringKeys == {"layoutMode", "primaryAxisSizingMode", "counterAxisSizingMode",
               "blendMode", "characters", "textAlignHorizontal",
               "textAlignVertical", "textCase", "textDecoration", "textStyleId"}
ObjectKeys == {"fills", "strokes", "effects", "styles", "layout"}
\* fontName is an object {family, ...} or a plain string s, written [string |-> s]
CopiedKeys == NumericKeys \cup StringKeys \cup ObjectKeys \cup {"fontName"}

\* `if (node.k)`: 0 and "" are falsy, arrays and objects are truthy
Truthy(k, v) ==
  IF k \in NumericKeys THEN v # 0
  ELSE IF k \in StringKeys THEN v # ""
  ELSE IF k = "fontName" THEN Has(v, "string") => v.string # ""
  ELSE TRUE

\* the `properties` of a flattened node (lines 89-117)
ExtractProperties(node) ==
  LET keys == {k \in DOMAIN node \cap CopiedKeys : Truthy(k, node[k])}
              \cup (DOMAIN node \cap {"visible"})
  IN [k \in keys |-> node[k]]

\* Pages are rebuilt as {id, name, type, children} (lines 46-51): a page keeps
\* none of its other fields.
PageNode(node) == [k \in {"name", "type"} |-> node[k]]

FlatNode(id, node, parentId, depth, children) ==
  [id |-> id, name |-> node.name, type |-> node.type, parentId |-> parentId,
   depth |-> depth, children |-> children, properties |-> ExtractProperties(node)]

\* traverseNodes(child, node.id, depth + 1), line 126
ChildDepthSame(depth) == depth
ChildDepth(depth) == depth + 1
ChildParentIdOfParent(nodeId, parentId) == parentId
ChildParentId(nodeId, parentId) == nodeId

RECURSIVE traverseNodes(_, _, _, _, _), traverseEach(_, _, _, _, _)
\* traverseNodes(node, parentId, depth) on raw node i, appending to `acc`
\* = [nodes, threw].  A null entry among node.children makes
\* `node.children.map(child => child.id)` throw after the node was pushed.
traverseNodes(json, i, parentId, depth, acc) ==
  LET node == IF parentId = NoParent THEN PageNode(json.kind[i]) ELSE json.kind[i]
      kids == RawChildren(json, i)
      nullKid == \E j \in Range(kids) : IsNullNode(json, j)
      flatNode == FlatNode(i, node, parentId, depth, IF nullKid THEN <<>> ELSE kids)
      pushed == [nodes |-> Append(acc.nodes, flatNode), threw |-> nullKid]
  IN IF nullKid THEN pushed
     ELSE traverseEach(json, kids, ChildParentId(i, parentId), ChildDepth(depth), pushed)

\* node.children.forEach(child => traverseNodes(child, node.id, depth + 1))
traverseEach(json, kids, parentId, depth, acc) ==
  IF kids = <<>> \/ acc.threw THEN acc
  ELSE traverseEach(json, Tail(kids), parentId, depth,
                    traverseNodes(json, Head(kids), parentId, depth, acc))

\* flattenNodes(): this.flattenedNodes = [] and one traversal per page
flattenNodes(json) ==
  traverseEach(json, RawChildren(json, 0), NoParent, 0, [nodes |-> <<>>, threw |-> FALSE])

----------------------------------------------------------------------------
(* FigmaParserAgent.extractStyles and identifyComponents *)

\* `fill.type && fill.visible !== false`
IsExtracted(paint) ==
  /\ Has(paint, "type") /\ paint.type # ""
  /\ ~(Has(paint, "visible") /\ paint.visible = FALSE)

StyleRecord(styleId, name, type, value, nodeId) ==
  [id |-> styleId, name |-> name, type |-> type, value |-> value, nodeId |-> nodeId]

RECURSIVE PutPaints(_, _, _, _, _)
\* one `this.extractedStyles[styleId] = ...` per extracted fill or effect, in order
PutPaints(styles, node, paints, prefix, type) ==
  IF paints = <<>> THEN styles
  ELSE LET paint == Head(paints)
           styleId == <<prefix, node.id, paint.type>>
           next == IF IsExtracted(paint)
                   THEN Put(styles, styleId,
                            StyleRecord(styleId, <<node.name, type>>, type, paint, node.id))
                   ELSE styles
       IN PutPaints(next, node, Tail(paints), prefix, type)

TextValueKeys == {"fontSize", "fontName", "textAlignHorizontal", "textAlignVertical",
                  "letterSpacing", "lineHeight", "textCase", "textDecoration"}

\* the three blocks of the forEach body (lines 150-203) for one node
ExtractNodeStyles(styles, node) ==
  LET props == node.properties
      withFills == IF Has(props, "fills")
                   THEN PutPaints(styles, node, props.fills, "fill", "FILL")
                   ELSE styles
      textId == <<"text", node.id, "">>
      withText == IF node.type = "TEXT" /\ Has(props, "fontSize")
                  THEN Put(withFills, textId,
                           StyleRecord(textId, <<node.name, "TEXT">>, "TEXT",
                                       [k \in DOMAIN props \cap TextValueKeys |-> props[k]],
                                       node.id))
                  ELSE withFills
  IN IF Has(props, "effects")
     THEN PutPaints(withText, node, props.effects, "effect", "EFFECT")
     ELSE withText

RECURSIVE ExtractAll(_, _)
ExtractAll(styles, nodes) ==
  IF nodes = <<>> THEN styles
  ELSE ExtractAll(ExtractNodeStyles(styles, Head(nodes)), Tail(nodes))

\* extractStyles(): the records are added to this.extractedStyles, which is
\* never emptied; it throws when there is no flattened node (line 145).
extractStyles(styles, nodes) ==
  IF nodes = <<>> THEN [styles |-> styles, threw |-> TRUE]
  ELSE [styles |-> ExtractAll(styles, nodes), threw |-> FALSE]

IsComponentNode(node) == node.type = "COMPONENT" \/ node.type = "INSTANCE"

\* identifyComponents() (lines 219-245)
identifyComponents(nodes, styles) ==
  LET Component(node) ==
        LET IsChild(childNode) == childNode.parentId = node.id
            Id(child) == child.id
            owned == {k \in DOMAIN styles : styles[k].nodeId = node.id}
        IN [id |-> node.id, name |-> node.name, type |-> node.type,
            children |-> Map(Filter(nodes, IsChild), Id),
            properties |-> node.properties,
            styles |-> [k \in owned |-> styles[k]]]
  IN Map(Filter(nodes, IsComponentNode), Component)

----------------------------------------------------------------------------
(* FigmaParserAgent.parseJson *)

ParserState(tree, nodes, styles, comps) ==
  [designTree |-> tree, flattenedNodes |-> nodes, extractedStyles |-> styles,
   components |-> comps]

\* `!jsonData.document || !jsonData.document.children` (line 30)
IsFigmaFile(json) == json.shape = "tree"

\* the tree of lines 35-43, its `pages` still empty
NewDesignTree(json) == [name |-> json.name, document |-> json, pages |-> <<>>]

\* lines 46-51
Page(json, i) ==
  [id |-> i, name |-> json.kind[i].name, type |-> json.kind[i].type,
   children |-> RawChildren(json, i)]

\* The body of the try block after the format check; every throw is caught
\* and rethrown by line 61 with the fields as they are at that point.
ParseFigmaFile(st, json) ==
  LET pageIds == RawChildren(json, 0)
      tree0 == NewDesignTree(json)
      tree == [tree0 EXCEPT !.pages = [j \in DOMAIN pageIds |-> Page(json, pageIds[j])]]
      flat == flattenNodes(json)
      ext == extractStyles(st.extractedStyles, flat.nodes)
  IN IF \E i \in Range(pageIds) : IsNullNode(json, i)
     THEN [state |-> [st EXCEPT !.designTree = Some(tree0)], outcome |-> "threw"]
     ELSE IF flat.threw
     THEN [state |-> [st EXCEPT !.designTree = Some(tree), !.flattenedNodes = flat.nodes],
           outcome |-> "threw"]
     ELSE IF ext.threw
     THEN [state |-> [st EXCEPT !.designTree = Some(tree), !.flattenedNodes = flat.nodes],
           outcome |-> "threw"]
     ELSE [state |-> ParserState(Some(tree), flat.nodes, ext.styles,
                                 identifyComponents(flat.nodes, ext.styles)),
           outcome |-> "returned"]

\* a parseJson that builds the tree before it checks the format
parseJsonTreeFirst(st, json) ==
  IF ~IsFigmaFile(json)
  THEN [state |-> [st EXCEPT !.designTree = Some([name |-> "Untitled Design",
                                                  document |-> json, pages |-> <<>>])],
        outcome |-> "threw"]
  ELSE ParseFigmaFile(st, json)

parseJson(st, json) ==
  IF ~IsFigmaFile(json) THEN [state |-> st, outcome |-> "threw"]
  ELSE ParseFigmaFile(st, json)

ParserNow == ParserState(designTree, flattenedNodes, extractedStyles, components)
ParserFresh == ParserState(None, <<>>, EmptyObject, <<>>)

ParserInit ==
  /\ designTree = None
  /\ flattenedNodes = <<>>
  /\ extractedStyles = EmptyObject
  /\ components = <<>>
  /\ parserCall = None
  /\ parserCalls = 0

\* parser.parseJson(json); parserCall records the call: its argument and how
\* it ended.
ParseJsonEnds(json, r) ==
  /\ designTree' = r.state.designTree
  /\ flattenedNodes' = r.state.flattenedNodes
  /\ extractedStyles' = r.state.extractedStyles
  /\ components' = r.state.components
  /\ parserCall' = Some([json |-> json, outcome |-> r.outcome])
ParseJson(json) ==
  /\ parserCalls < MaxParses
  /\ ParseJsonEnds(json, parseJson(ParserNow, json))
  /\ parserCalls' = parserCalls + 1

----------------------------------------------------------------------------
(* DesignAnalyzerAgent: pattern detection *)

T_button == W_button
T_input == W_input
T_card == W_card
T_navigation == W_navigation
T_layout == W_layout

\* the first element that passes the test (Array.prototype.find)
Find(s, Test(_)) ==
  LET hits == Filter(s, Test) IN IF hits = <<>> THEN None ELSE Some(hits[1])

IsVisible(paint) == ~(Has(paint, "visible") /\ paint.visible = FALSE)
SomeVisible(paints) == \E i \in DOMAIN paints : IsVisible(paints[i])
IsDropShadow(effect) == Has(effect, "type") /\ effect.type = "DROP_SHADOW"

ChildrenOf(nodes, node) ==
  LET IsChild(child) == child.parentId = node.id IN Filter(nodes, IsChild)
TextChild(nodes, node) ==
  LET IsText(child) == child.parentId = node.id /\ child.type = "TEXT"
  IN Find(nodes, IsText)
IsContainer(node) == node.type \in {"FRAME", "GROUP", "COMPONENT"}
\* `node.properties.opacity !== undefined && node.properties.opacity < 1`
IsDisabled(node) == Has(node.properties, "opacity") /\ node.properties.opacity < 100
NodeIds(nodes) == [i \in DOMAIN nodes |-> nodes[i].id]

Pattern(prefix, type, node, confidence, properties, matchedNodes) ==
  [id |-> <<prefix, node.id>>, type |-> type, nodeId |-> node.id, name |-> node.name,
   confidence |-> confidence, properties |-> properties, matchedNodes |-> matchedNodes]

\* a detector that writes a confidence as a percentage, not as a fraction
ButtonConfidencePercent == 85 * 100

\* the initial confidences of the five detectors
ButtonConfidence == 85
InputConfidence == 80
CardConfidence == 75
NavigationConfidence == 70
LayoutConfidence == 80

\* detectButtonPatterns (lines 122-191)
detectButtonPatterns(nodes) ==
  LET IsCandidate(node) ==
        LET nameHint == NameHas(node.name, W_button) \/ NameHas(node.name, W_btn)
            hasButtonShape == Has(node.properties, "cornerRadius")
            hasButtonFill == Has(node.properties, "fills")
                             /\ SomeVisible(node.properties.fills)
        IN (nameHint \/ (hasButtonShape /\ hasButtonFill)) /\ TextChild(nodes, node) # None
      Create(node) ==
        LET textChild == TextChild(nodes, node)[1]
            label == IF Has(textChild.properties, "characters")
                     THEN textChild.properties.characters ELSE "Button"
            fill == IF Has(node.properties, "fills")
                    THEN Find(node.properties.fills, IsVisible) ELSE None
            variant ==
              IF ~Has(node.properties, "fills") THEN "primary"
              ELSE IF fill # None /\ Has(fill[1], "opacity") /\ fill[1].opacity # 0
                      /\ fill[1].opacity < 100
              THEN "secondary"
              ELSE IF fill = None
                      \/ (Has(fill[1], "type") /\ fill[1].type = "SOLID"
                          /\ Has(fill[1], "color") /\ Has(fill[1].color, "a")
                          /\ fill[1].color.a = 0)
              THEN "outline"
              ELSE "primary"
            size ==
              IF ~Has(textChild.properties, "fontSize") THEN "md"
              ELSE IF textChild.properties.fontSize < Px(14) THEN "sm"
              ELSE IF textChild.properties.fontSize > Px(16) THEN "lg"
              ELSE "md"
        IN Pattern("button", T_button, node, ButtonConfidence,
                   [variant |-> variant, size |-> size, label |-> label,
                    disabled |-> IsDisabled(node)],
                   <<node.id, textChild.id>>)
  IN Map(Filter(nodes, IsCandidate), Create)

\* detectInputFieldPatterns (lines 196-258)
detectInputFieldPatterns(nodes) ==
  LET IsCandidate(node) ==
        LET nameHint == \/ NameHas(node.name, W_input)
                        \/ NameHas(node.name, W_field)
                        \/ NameHas(node.name, W_textfield)
            hasRectangularShape == node.type \in {"RECTANGLE", "FRAME"}
            hasBorder == Has(node.properties, "strokes")
                         /\ SomeVisible(node.properties.strokes)
        IN (nameHint \/ (hasRectangularShape /\ hasBorder)) /\ TextChild(nodes, node) # None
      Create(node) ==
        LET textChild == TextChild(nodes, node)[1]
            placeholder == IF Has(textChild.properties, "characters")
                           THEN textChild.properties.characters ELSE "Placeholder"
            type == IF NameHas(node.name, W_email) THEN "email"
                    ELSE IF NameHas(node.name, W_password) THEN "password"
                    ELSE IF NameHas(node.name, W_number) THEN "number"
                    ELSE IF NameHas(node.name, W_search) THEN "search"
                    ELSE "text"
        IN Pattern("input", T_input, node, InputConfidence,
                   [type |-> type, placeholder |-> placeholder,
                    disabled |-> IsDisabled(node), required |-> FALSE],
                   <<node.id, textChild.id>>)
  IN Map(Filter(nodes, IsCandidate), Create)

\* `effects && Array.isArray(effects) && effects.some(...)` as a property value
SomeOrUndefined(node, Test(_)) ==
  IF ~Has(node.properties, "effects") THEN "undefined"
  ELSE IF \E i \in DOMAIN node.properties.effects : Test(node.properties.effects[i])
  THEN "true" ELSE "false"

\* detectCardPatterns (lines 263-323)
detectCardPatterns(nodes) ==
  LET IsCandidate(node) ==
        LET nameHint == NameHas(node.name, W_card)
            hasCardShape == Has(node.properties, "cornerRadius")
                            /\ node.properties.cornerRadius > 0
            VisibleShadow(effect) == IsDropShadow(effect) /\ IsVisible(effect)
            hasShadow == SomeOrUndefined(node, VisibleShadow) = "true"
        IN /\ nameHint \/ (IsContainer(node) /\ (hasCardShape \/ hasShadow))
           /\ Len(ChildrenOf(nodes, node)) >= 2
      Create(node) ==
        LET children == ChildrenOf(nodes, node)
            IsHeader(child) ==
              \/ NameHas(child.name, W_header)
              \/ (child.type = "TEXT" /\ child.depth = node.depth + 1)
            HasButton(child) ==
              \E i \in DOMAIN nodes :
                nodes[i].parentId = child.id /\ NameHas(nodes[i].name, W_button)
            IsFooter(child) ==
              \/ NameHas(child.name, W_footer)
              \/ (child.type = "FRAME" /\ child.depth = node.depth + 1 /\ HasButton(child))
        IN Pattern("card", T_card, node, CardConfidence,
                   [hasHeader |-> \E i \in DOMAIN children : IsHeader(children[i]),
                    hasFooter |-> \E i \in DOMAIN children : IsFooter(children[i]),
                    hasShadow |-> SomeOrUndefined(node, IsDropShadow),
                    cornerRadius |-> IF Has(node.properties, "cornerRadius")
                                     THEN node.properties.cornerRadius ELSE 0],
                   <<node.id>> \o NodeIds(children))
  IN Map(Filter(nodes, IsCandidate), Create)

IsNavItem(child) ==
  \/ child.type = "TEXT"
  \/ NameHas(child.name, W_link)
  \/ NameHas(child.name, W_item)
  \/ NameHas(child.name, W_button)

\* detectNavigationPatterns (lines 328-397)
detectNavigationPatterns(nodes) ==
  LET IsCandidate(node) ==
        LET nameHint == \/ NameHas(node.name, W_nav)
                        \/ NameHas(node.name, W_menu)
                        \/ NameHas(node.name, W_sidebar)
                        \/ NameHas(node.name, W_header)
            children == ChildrenOf(nodes, node)
            hasNavItems == Len(children) >= 2
                           /\ \E i \in DOMAIN children : IsNavItem(children[i])
        IN nameHint \/ (IsContainer(node) /\ hasNavItems)
      Create(node) ==
        LET navItems == Filter(ChildrenOf(nodes, node), IsNavItem)
            navType ==
              IF NameHas(node.name, W_sidebar) \/ NameHas(node.name, W_vertical)
              THEN "vertical"
              ELSE IF Has(node.properties, "layoutMode")
                      /\ node.properties.layoutMode = "VERTICAL"
              THEN "vertical"
              ELSE "horizontal"
        IN Pattern("nav", T_navigation, node, NavigationConfidence,
                   [type |-> navType, itemCount |-> Len(navItems),
                    isHeader |-> NameHas(node.name, W_header),
                    isSidebar |-> NameHas(node.name, W_sidebar)],
                   <<node.id>> \o NodeIds(navItems))
  IN Map(Filter(nodes, IsCandidate), Create)

PropOr0(node, k) == IF Has(node.properties, k) THEN node.properties[k] ELSE 0

\* detectLayoutPatterns (lines 402-471)
detectLayoutPatterns(nodes) ==
  LET IsCandidate(node) ==
        LET hasLayoutProperties ==
              \/ Has(node.properties, "layoutMode")
              \/ Has(node.properties, "primaryAxisSizingMode")
              \/ Has(node.properties, "counterAxisSizingMode")
            nameHint == \/ NameHas(node.name, W_layout)
                        \/ NameHas(node.name, W_container)
                        \/ NameHas(node.name, W_grid)
                        \/ NameHas(node.name, W_flex)
        IN /\ hasLayoutProperties \/ nameHint
           /\ IsContainer(node)
           /\ Len(ChildrenOf(nodes, node)) >= 2
      Create(node) ==
        LET mode == IF Has(node.properties, "layoutMode")
                    THEN node.properties.layoutMode ELSE ""
            layoutType == IF NameHas(node.name, W_grid) THEN "grid"
                          ELSE IF mode = "VERTICAL" THEN "flex-column"
                          ELSE IF mode = "HORIZONTAL" THEN "flex-row"
                          ELSE "flex"
            align == IF Has(node.properties, "primaryAxisAlignItems")
                     THEN node.properties.primaryAxisAlignItems ELSE ""
            alignment == IF align = "CENTER" THEN "center"
                         ELSE IF align = "END" THEN "end"
                         ELSE IF align = "SPACE_BETWEEN" THEN "space-between"
                         ELSE "start"
        IN Pattern("layout", T_layout, node, LayoutConfidence,
                   [type |-> layoutType, spacing |-> PropOr0(node, "itemSpacing"),
                    alignment |-> alignment,
                    padding |-> [top |-> PropOr0(node, "paddingTop"),
                                 right |-> PropOr0(node, "paddingRight"),
                                 bottom |-> PropOr0(node, "paddingBottom"),
                                 left |-> PropOr0(node, "paddingLeft")]],
                   <<node.id>>)
  IN Map(Filter(nodes, IsCandidate), Create)

Min(a, b) == IF a < b THEN a ELSE b
Max(a, b) == IF a > b THEN a ELSE b

\* a calculatePatternConfidence without the three adjustments
AdjustConfidenceNone(pattern) == pattern
\* the three adjustments of calculatePatternConfidence (lines 483-498)
AdjustConfidence(pattern) ==
  LET c0 == pattern.confidence
      c1 == IF includes(toLowerCase(pattern.name), pattern.type)
            THEN Min(100, c0 + 10) ELSE c0
      c2 == IF Len(pattern.matchedNodes) > 3 THEN Min(100, c1 + 5) ELSE c1
      c3 == IF Cardinality(DOMAIN pattern.properties) < 2 THEN Max(0, c2 - 10) ELSE c2
  IN [pattern EXCEPT !.confidence = c3]

RECURSIVE SumConfidence(_)
SumConfidence(ps) ==
  IF ps = <<>> THEN 0 ELSE Head(ps).confidence + SumConfidence(Tail(ps))

\* the patterns that a run starts from: `this.patterns = []` (line 95)
KeepPatterns(previous) == previous
ResetPatterns(previous) == <<>>

\* detectPatterns (lines 92-117): the five detectors in order, then the
\* adjustments; `confidence` is the average, as a fraction sum / count.
PatternDetectionResult(adjusted) ==
  [patternsDetected |-> Len(adjusted), patterns |-> adjusted,
   confidence |-> IF adjusted = <<>> THEN <<0, 1>>
                  ELSE <<SumConfidence(adjusted), Len(adjusted)>>]
detectPatterns(previous, nodes) ==
  PatternDetectionResult(
    Map(ResetPatterns(previous)
        \o detectButtonPatterns(nodes)
        \o detectInputFieldPatterns(nodes)
        \o detectCardPatterns(nodes)
        \o detectNavigationPatterns(nodes)
        \o detectLayoutPatterns(nodes),
        AdjustConfidence))

----------------------------------------------------------------------------
(* DesignAnalyzerAgent: style validation *)

\* A JavaScript Map from a key to a list of node ids is a sequence of
\* [key, ids] in insertion order.
MapIndex(m, key) == {i \in DOMAIN m : m[i].key = key}
\* `if (!m.has(key)) m.set(key, []); m.get(key).push(id)`
MapPush(m, key, id) ==
  IF MapIndex(m, key) = {} THEN Append(m, [key |-> key, ids |-> <<id>>])
  ELSE LET i == CHOOSE j \in MapIndex(m, key) : TRUE
       IN [m EXCEPT ![i].ids = Append(@, id)]

RECURSIVE MapPushAll(_, _)
\* the pushes of a sequence of [key, id] in order
MapPushAll(m, entries) ==
  IF entries = <<>> THEN m
  ELSE MapPushAll(MapPush(m, Head(entries).key, Head(entries).id), Tail(entries))
MapKeys(m) == [i \in DOMAIN m |-> m[i].key]

StyleIssue(id, key, type, severity, details) ==
  [id |-> <<id, key>>, type |-> type, severity |-> severity, details |-> details]

\* `rgba(${Math.round(r * 255)},${Math.round(g * 255)},${Math.round(b * 255)},${a})`
ColorKey(color) ==
  <<Round255(color.r), Round255(color.g), Round255(color.b), color.a>>
IsUsedColor(paint) ==
  /\ Has(paint, "type") /\ paint.type = "SOLID"
  /\ Has(paint, "color")
  /\ IsVisible(paint)

\* the colours of a node in the order they are recorded: fills, then strokes
NodeColors(node) ==
  LET Entry(paint) == [key |-> ColorKey(paint.color), id |-> node.id]
      Of(k) == IF Has(node.properties, k)
               THEN Map(Filter(node.properties[k], IsUsedColor), Entry) ELSE <<>>
  IN Of("fills") \o Of("strokes")

SimilarityThreshold == 20
\* colorDistance(color1, color2) < 20, squared and in integers: the alphas
\* are in hundredths, so (a1 - a2) * 255 is da * 255 / 100
IsSimilarColor(c1, c2) ==
  LET dr == c1[1] - c2[1]
      dg == c1[2] - c2[2]
      db == c1[3] - c2[3]
      da == c1[4] - c2[4]
  IN (dr * dr + dg * dg + db * db) * 10000 + da * da * 255 * 255
       < SimilarityThreshold * SimilarityThreshold * 10000

RECURSIVE groupFrom(_, _, _)
\* groupSimilarColors (lines 610-667): every colour not yet in a group opens a
\* group that takes all later ungrouped colours within the threshold of it
groupFrom(usedColors, i, processed) ==
  IF i > Len(usedColors) THEN <<>>
  ELSE IF i \in processed THEN groupFrom(usedColors, i + 1, processed)
  ELSE LET color == usedColors[i].key
           taken == {j \in DOMAIN usedColors :
                       /\ j # i
                       /\ j \notin processed
                       /\ IsSimilarColor(color, usedColors[j].key)}
           members == <<i>> \o SortedSeq(taken)
           Key(j) == usedColors[j].key
           Ids(j) == usedColors[j].ids
       IN <<[colors |-> Map(members, Key), nodeIds |-> Flat(Map(members, Ids))]>>
          \o groupFrom(usedColors, i + 1, processed \cup {i} \cup taken)
\* a grouping that puts every colour in a group of its own
groupEachColor(usedColors) ==
  [i \in DOMAIN usedColors |->
     [colors |-> <<usedColors[i].key>>, nodeIds |-> usedColors[i].ids]]
groupSimilarColors(usedColors) == groupFrom(usedColors, 1, {})

MaxUniqueColors == 10
\* validateColorUsage (lines 539-603)
validateColorUsage(nodes) ==
  LET usedColors == MapPushAll(<<>>, Flat(Map(nodes, NodeColors)))
      IsSimilarGroup(group) == Len(group.colors) > 1
      Similar(group) ==
        StyleIssue("color-similar", group.colors[1], "color", "warning",
                   [colors |-> group.colors, affectedNodes |-> group.nodeIds])
  IN Map(Filter(groupSimilarColors(usedColors), IsSimilarGroup), Similar)
     \o (IF Len(usedColors) > MaxUniqueColors
         THEN <<StyleIssue("color-too-many", <<>>, "color", "warning",
                           [colorCount |-> Len(usedColors)])>>
         ELSE <<>>)

\* findNearestStandardSize (lines 759-763): the first of the nearest sizes
findNearestStandardSize(size, standardSizes) ==
  LET Abs(x) == IF x < 0 THEN 0 - x ELSE x
      i == CHOOSE j \in DOMAIN standardSizes :
             /\ \A k \in DOMAIN standardSizes :
                  Abs(standardSizes[j] - size) <= Abs(standardSizes[k] - size)
             /\ \A k \in 1..(j - 1) :
                  Abs(standardSizes[j] - size) < Abs(standardSizes[k] - size)
  IN standardSizes[i]

\* `!standard.includes(v) && !standard.includes(Math.round(v))`
IsNonStandard(v, standard) ==
  v \notin Range(standard) /\ RoundPx(v) \notin Range(standard)

\* the "too many values" issue and the per-value "non-standard" issues of a
\* Map of used values
ScaleIssues(used, limit, standard, tooMany, nonStandard, type, plural, singular) ==
  LET IsOff(entry) == IsNonStandard(entry.key, standard)
      Off(entry) ==
        StyleIssue(nonStandard, <<entry.key>>, type, "info",
                   [k \in {singular, "affectedNodes", "nearest"} |->
                      IF k = singular THEN <<entry.key>>
                      ELSE IF k = "affectedNodes" THEN entry.ids
                      ELSE <<findNearestStandardSize(entry.key, standard)>>])
  IN (IF Len(used) > limit
      THEN <<StyleIssue(tooMany, <<>>, type, "warning",
                        [k \in {plural} |-> MapKeys(used)])>>
      ELSE <<>>)
     \o Map(Filter(used, IsOff), Off)

StandardFontSizes ==
  <<Px(12), Px(14), Px(16), Px(18), Px(20), Px(24), Px(32), Px(40), Px(48), Px(56),
    Px(64)>>
StandardSpacing ==
  <<Px(0), Px(4), Px(8), Px(12), Px(16), Px(20), Px(24), Px(32), Px(40), Px(48),
    Px(64)>>
StandardRadius == <<Px(0), Px(2), Px(4), Px(8), Px(12), Px(16), Px(24), Px(32)>>
MaxFontSizes == 5
MaxFontFamilies == 2
MaxSpacingValues == 8
MaxRadiusValues == 5
MaxShadowVariations == 3

IsSizedText(node) == node.type = "TEXT" /\ Has(node.properties, "fontSize")
\* `typeof fontName === 'string' ? fontName : fontName.family`
FontFamily(fontName) ==
  IF Has(fontName, "string") THEN fontName.string ELSE fontName.family

\* validateTypography (lines 672-751)
validateTypography(nodes) ==
  LET texts == Filter(nodes, IsSizedText)
      Size(node) == [key |-> node.properties.fontSize, id |-> node.id]
      HasFont(node) == Has(node.properties, "fontName")
      Family(node) == [key |-> FontFamily(node.properties.fontName), id |-> node.id]
      usedFontSizes == MapPushAll(<<>>, Map(texts, Size))
      usedFontFamilies == MapPushAll(<<>>, Map(Filter(texts, HasFont), Family))
  IN ScaleIssues(usedFontSizes, MaxFontSizes, StandardFontSizes,
                 "typography-too-many-sizes", "typography-non-standard",
                 "typography", "fontSizes", "fontSize")
     \o (IF Len(usedFontFamilies) > MaxFontFamilies
         THEN <<StyleIssue("typography-too-many-families", <<>>, "typography",
                           "warning", [fontFamilies |-> MapKeys(usedFontFamilies)])>>
         ELSE <<>>)

SpacingKeys == <<"itemSpacing", "paddingTop", "paddingRight", "paddingBottom",
                 "paddingLeft">>
\* validateSpacing (lines 768-829)
validateSpacing(nodes) ==
  LET NodeSpacing(node) ==
        LET IsSet(k) == Has(node.properties, k)
            Entry(k) == [key |-> node.properties[k], id |-> node.id]
        IN Map(Filter(SpacingKeys, IsSet), Entry)
      usedSpacingValues == MapPushAll(<<>>, Flat(Map(nodes, NodeSpacing)))
  IN ScaleIssues(usedSpacingValues, MaxSpacingValues, StandardSpacing,
                 "spacing-too-many-values", "spacing-non-standard",
                 "spacing", "spacingValues", "spacing")

\* validateBorderRadius (lines 834-883)
validateBorderRadius(nodes) ==
  LET IsRounded(node) == Has(node.properties, "cornerRadius")
      Entry(node) == [key |-> node.properties.cornerRadius, id |-> node.id]
      usedRadiusValues == MapPushAll(<<>>, Map(Filter(nodes, IsRounded), Entry))
  IN ScaleIssues(usedRadiusValues, MaxRadiusValues, StandardRadius,
                 "radius-too-many-values", "radius-non-standard",
                 "border-radius", "radiusValues", "radius")

\* `${offset?.x || 0},${offset?.y || 0},${radius || 0},${spread || 0}`
ShadowKey(effect) ==
  LET Or0(obj, k) == IF Has(obj, k) THEN obj[k] ELSE 0
      offset == IF Has(effect, "offset") THEN effect.offset ELSE EmptyObject
  IN <<Or0(offset, "x"), Or0(offset, "y"), Or0(effect, "radius"), Or0(effect, "spread")>>

\* validateShadowUsage (lines 888-921)
validateShadowUsage(nodes) ==
  LET IsShadow(effect) == IsDropShadow(effect) /\ IsVisible(effect)
      NodeShadows(node) ==
        LET Entry(effect) == [key |-> ShadowKey(effect), id |-> node.id]
        IN IF Has(node.properties, "effects")
           THEN Map(Filter(node.properties.effects, IsShadow), Entry) ELSE <<>>
      usedShadows == MapPushAll(<<>>, Flat(Map(nodes, NodeShadows)))
  IN IF Len(usedShadows) > MaxShadowVariations
     THEN <<StyleIssue("shadow-too-many-variations", <<>>, "shadow", "warning",
                       [shadowCount |-> Len(usedShadows)])>>
     ELSE <<>>

IssueImpact == [error |-> 20, warning |-> 10, info |-> 5]
RECURSIVE SumImpact(_)
SumImpact(issues) ==
  IF issues = <<>> THEN 0
  ELSE IssueImpact[Head(issues).severity] + SumImpact(Tail(issues))
\* calculateStyleConsistency (lines 927-944)
calculateStyleConsistency(issues) == Max(0, Min(100, 100 - SumImpact(issues)))

\* the issues that a run starts from: `this.styleIssues = []` (line 512)
ResetIssues(previous) == <<>>

\* validateStyles (lines 509-534)
StyleValidationResult(issues) ==
  [issuesFound |-> Len(issues), issues |-> issues,
   consistency |-> calculateStyleConsistency(issues)]
validateStyles(previous, nodes) ==
  StyleValidationResult(ResetIssues(previous)
                        \o validateColorUsage(nodes)
                        \o validateTypography(nodes)
                        \o validateSpacing(nodes)
                        \o validateBorderRadius(nodes)
                        \o validateShadowUsage(nodes))

----------------------------------------------------------------------------
(* DesignAnalyzerAgent: its inputs and its methods *)

MaxAnalyzerNodes == 2
MaxAnalyses == 2

NearRed == [type |-> "SOLID", color |-> Rgba(250, 4, 0, 100)]
GreyStroke == [type |-> "SOLID", color |-> Rgba(128, 128, 128, 100)]

\* a frame with a radius and a spacing off the scales, a border and a shadow
KPanel ==
  [name |-> N_Panel, type |-> "FRAME", fills |-> <<NearRed>>,
   strokes |-> <<GreyStroke>>, effects |-> <<DropShadow>>, cornerRadius |-> Px(3),
   layoutMode |-> "VERTICAL", itemSpacing |-> Px(18), paddingTop |-> Px(4),
   opacity |-> 50]
\* a text with a font size off the scale and a font object
KNavItem ==
  [name |-> N_NavItem, type |-> "TEXT", characters |-> "Home", fontSize |-> Px(13),
   fontName |-> [family |-> "Roboto"]]
KCard == [name |-> N_Card, type |-> "FRAME"]

AnalyzerKinds == {KComponent, KText, KPanel, KNavItem}

\* a panel below a page with a label: a button and an input by their shape;
\* the same with two children: a card, a navigation and a layout as well;
\* a page named Card with three children
ShapeDoc == TreeDoc(<<0, 1, 2>>, <<KPanel, KPanel, KText>>)
CardDoc == TreeDoc(<<0, 1, 2, 2>>, <<KPanel, KPanel, KText, KNavItem>>)
NamedCardDoc == TreeDoc(<<0, 1, 1, 1>>, <<KCard, KText, KNavItem, KComponent>>)
\* a text whose characters are the empty string, and a button with it
KBlank == [KText EXCEPT !.characters = ""]
BlankButtonDoc == TreeDoc(<<0, 1, 2>>, <<KPanel, KComponent, KBlank>>)
\* two texts below a page, one red and one nearly red: two colours in all
KNearText == [KText EXCEPT !.fills = <<NearRed>>]
TwoRedsDoc == TreeDoc(<<0, 1, 1>>, <<KCard, KText, KNearText>>)
\* two frames below a page, with item spacings of 80 and of 15.5
KWide == [name |-> N_Panel, type |-> "FRAME", layoutMode |-> "VERTICAL",
          itemSpacing |-> Px(80)]
KHalf == [KWide EXCEPT !.itemSpacing = Px(16) - 1]
WideDoc == TreeDoc(<<0, 1, 1>>, <<KCard, KWide, KHalf>>)

AnalyzerDocs ==
  UNION {TreeDocsOf(AnalyzerKinds, n) : n \in 0..MaxAnalyzerNodes}
  \cup {ShapeDoc, CardDoc, NamedCardDoc, BlankButtonDoc, TwoRedsDoc, WideDoc}

\* what a fresh parser exposes after parseJson(json)
ParserOutput(json) == parseJson(ParserFresh, json).state
AnalyzerInputs == {ParserOutput(json) : json \in AnalyzerDocs}

AnalyzerNow ==
  [designTree |-> aDesignTree, flattenedNodes |-> aFlattenedNodes,
   extractedStyles |-> aStyles, components |-> aComponents]

\* new DesignAnalyzerAgent(): the field initialisers (lines 27-32)
AnalyzerNew ==
  /\ aDesignTree' = None
  /\ aFlattenedNodes' = <<>>
  /\ aStyles' = EmptyObject
  /\ aComponents' = <<>>
  /\ patterns' = <<>>
  /\ styleIssues' = <<>>
  /\ UNCHANGED <<analyzerCall, analyzerPrev, analyzerCalls>>

\* initialize(designTree, flattenedNodes, styles, components) (lines 41-53)
AnalyzerInitialize(in) ==
  /\ aDesignTree' = in.designTree
  /\ aFlattenedNodes' = in.flattenedNodes
  /\ aStyles' = in.extractedStyles
  /\ aComponents' = in.components
  /\ UNCHANGED <<patterns, styleIssues, analyzerCall, analyzerPrev, analyzerCalls>>

\* `!this.designTree || this.flattenedNodes.length === 0` (line 62)
DesignNotInitialized(tree, nodes) == tree = None \/ nodes = <<>>

\* analyzeDesign() (lines 59-86).  extractMetadata and enrichData read the
\* fields and build new objects; the result keeps the two parts that come
\* from the fields.  analyzerCall is this call and analyzerPrev the one
\* before it, each with the inputs it ran on.
AnalyzeDesignReturns(input, patternResults, styleResults) ==
  /\ patterns' = patternResults.patterns
  /\ styleIssues' = styleResults.issues
  /\ analyzerCall' = Some([input |-> input, outcome |-> "returned",
                           patternDetection |-> patternResults,
                           styleValidation |-> styleResults])
AnalyzeDesign ==
  /\ analyzerCalls < MaxAnalyses
  /\ analyzerCalls' = analyzerCalls + 1
  /\ analyzerPrev' = analyzerCall
  /\ IF DesignNotInitialized(aDesignTree, aFlattenedNodes)
     THEN /\ analyzerCall' = Some([input |-> AnalyzerNow, outcome |-> "threw"])
          /\ UNCHANGED <<patterns, styleIssues>>
     ELSE AnalyzeDesignReturns(AnalyzerNow, detectPatterns(patterns, aFlattenedNodes),
                               validateStyles(styleIssues, aFlattenedNodes))
  /\ UNCHANGED <<aDesignTree, aFlattenedNodes, aStyles, aComponents>>

----------------------------------------------------------------------------
(* EDSMapperAgent: name similarity *)

\* Similarities and mapping confidences are exact fractions [num, den] in
\* lowest terms, den > 0.
RECURSIVE GCD(_, _)
GCD(a, b) == IF b = 0 THEN a ELSE GCD(b, a % b)
Frac(n, d) ==
  LET g == GCD(IF n < 0 THEN 0 - n ELSE n, d)
  IN IF n = 0 THEN [num |-> 0, den |-> 1] ELSE [num |-> n \div g, den |-> d \div g]
FAdd(x, y) == Frac(x.num * y.den + y.num * x.den, x.den * y.den)
FMul(x, y) == Frac(x.num * y.num, x.den * y.den)
FLess(x, y) == x.num * y.den < y.num * x.den
Hundredths(c) == Frac(c, 100)
FZero == Frac(0, 1)
FOne == Frac(1, 1)
FMin(x, y) == IF FLess(y, x) THEN y ELSE x
FMax(x, y) == IF FLess(x, y) THEN y ELSE x

LowerAlnum ==
  {"a", "b", "c", "d", "e", "f", "g", "h", "i", "j", "k", "l", "m", "n", "o", "p", "q",
   "r", "s", "t", "u", "v", "w", "x", "y", "z", "0", "1", "2", "3", "4", "5", "6", "7",
   "8", "9"}
\* name.toLowerCase().replace(/[^a-z0-9]/g, '')
Clean(name) ==
  LET IsAlnum(ch) == ch \in LowerAlnum IN Filter(toLowerCase(name), IsAlnum)

Min3(a, b, c) == Min(a, Min(b, c))
RECURSIVE levenshteinRow(_, _, _, _)
\* column j of the matrix d from column j - 1 (`prev`, indexes 1..m+1 for
\* rows 0..m), filled from row 1 upwards
levenshteinRow(s1, ch, prev, col) ==
  IF Len(col) = Len(prev) THEN col
  ELSE LET i == Len(col)
           cost == IF s1[i] = ch THEN 0 ELSE 1
       IN levenshteinRow(s1, ch, prev,
            Append(col, Min3(col[i] + 1, prev[i + 1] + 1, prev[i] + cost)))
RECURSIVE levenshteinColumns(_, _, _, _)
levenshteinColumns(s1, s2, j, prev) ==
  IF j > Len(s2) THEN prev
  ELSE levenshteinColumns(s1, s2, j + 1, levenshteinRow(s1, s2[j], prev, <<j>>))
\* a distance that counts the characters of the first string only
levenshteinFirstLength(s1, s2) == Len(s1)
\* levenshteinDistance(s1, s2) (lines 599-628): d[m][n]
levenshteinDistance(s1, s2) ==
  levenshteinColumns(s1, s2, 1, [i \in 1..(Len(s1) + 1) |-> i - 1])[Len(s1) + 1]

\* calculateNameSimilarity(name1, name2) (lines 565-591)
calculateNameSimilarity(name1, name2) ==
  LET clean1 == Clean(name1)
      clean2 == Clean(name2)
      maxLength == Max(Len(clean1), Len(clean2))
  IN IF clean1 = <<>> \/ clean2 = <<>> THEN FZero
     ELSE IF clean1 = clean2 THEN FOne
     ELSE IF includes(clean1, clean2) \/ includes(clean2, clean1) THEN Frac(9, 10)
     ELSE Frac(maxLength - levenshteinDistance(clean1, clean2), maxLength)

----------------------------------------------------------------------------
(* EDSMapperAgent: libraries and the two mapping passes *)

\* the keys of `properties` in the order flattenNodes sets them (lines 89-117)
PropertyOrder ==
  <<"fills", "strokes", "effects", "styles", "layout", "layoutMode",
    "primaryAxisSizingMode", "counterAxisSizingMode", "paddingLeft", "paddingRight",
    "paddingTop", "paddingBottom", "itemSpacing", "strokeWeight", "cornerRadius",
    "opacity", "blendMode", "characters", "fontSize", "fontName",
    "textAlignHorizontal", "textAlignVertical", "letterSpacing", "lineHeight",
    "textCase", "textDecoration", "textStyleId", "visible">>
\* Object.keys(obj) of a node's properties
ObjectKeysOf(obj) == LET IsSet(k) == Has(obj, k) IN Filter(PropertyOrder, IsSet)

\* the characters of the property names that are compared by similarity
KeyChars ==
  [fills |-> <<"f", "i", "l", "l", "s">>,
   strokes |-> <<"s", "t", "r", "o", "k", "e", "s">>,
   effects |-> <<"e", "f", "f", "e", "c", "t", "s">>,
   styles |-> <<"s", "t", "y", "l", "e", "s">>,
   layout |-> <<"l", "a", "y", "o", "u", "t">>,
   layoutMode |-> <<"l", "a", "y", "o", "u", "t", "M", "o", "d", "e">>,
   primaryAxisSizingMode |-> <<"p", "r", "i", "m", "a", "r", "y", "A", "x", "i",
        "s", "S", "i", "z", "i", "n", "g", "M", "o", "d", "e">>,
   counterAxisSizingMode |-> <<"c", "o", "u", "n", "t", "e", "r", "A", "x", "i",
        "s", "S", "i", "z", "i", "n", "g", "M", "o", "d", "e">>,
   paddingLeft |-> <<"p", "a", "d", "d", "i", "n", "g", "L", "e", "f", "t">>,
   paddingRight |-> <<"p", "a", "d", "d", "i", "n", "g", "R", "i", "g", "h", "t">>,
   paddingTop |-> <<"p", "a", "d", "d", "i", "n", "g", "T", "o", "p">>,
   paddingBottom |-> <<"p", "a", "d", "d", "i", "n",
        "g", "B", "o", "t", "t", "o", "m">>,
   itemSpacing |-> <<"i", "t", "e", "m", "S", "p", "a", "c", "i", "n", "g">>,
   strokeWeight |-> <<"s", "t", "r", "o", "k", "e", "W", "e", "i", "g", "h", "t">>,
   cornerRadius |-> <<"c", "o", "r", "n", "e", "r", "R", "a", "d", "i", "u", "s">>,
   opacity |-> <<"o", "p", "a", "c", "i", "t", "y">>,
   blendMode |-> <<"b", "l", "e", "n", "d", "M", "o", "d", "e">>,
   characters |-> <<"c", "h", "a", "r", "a", "c", "t", "e", "r", "s">>,
   fontSize |-> <<"f", "o", "n", "t", "S", "i", "z", "e">>,
   fontName |-> <<"f", "o", "n", "t", "N", "a", "m", "e">>,
   textAlignHorizontal |-> <<"t", "e", "x", "t", "A", "l", "i", "g", "n",
        "H", "o", "r", "i", "z", "o", "n", "t", "a", "l">>,
   textAlignVertical |-> <<"t", "e", "x", "t", "A", "l", "i", "g",
        "n", "V", "e", "r", "t", "i", "c", "a", "l">>,
   letterSpacing |-> <<"l", "e", "t", "t", "e", "r",
        "S", "p", "a", "c", "i", "n", "g">>,
   lineHeight |-> <<"l", "i", "n", "e", "H", "e", "i", "g", "h", "t">>,
   textCase |-> <<"t", "e", "x", "t", "C", "a", "s", "e">>,
   textDecoration |-> <<"t", "e", "x", "t", "D", "e", "c",
        "o", "r", "a", "t", "i", "o", "n">>,
   textStyleId |-> <<"t", "e", "x", "t", "S", "t", "y", "l", "e", "I", "d">>,
   visible |-> <<"v", "i", "s", "i", "b", "l", "e">>,
   variant |-> <<"v", "a", "r", "i", "a", "n", "t">>,
   size |-> <<"s", "i", "z", "e">>,
   children |-> <<"c", "h", "i", "l", "d", "r", "e", "n">>,
   disabled |-> <<"d", "i", "s", "a", "b", "l", "e", "d">>,
   type |-> <<"t", "y", "p", "e">>,
   placeholder |-> <<"p", "l", "a", "c", "e", "h", "o", "l", "d", "e", "r">>,
   required |-> <<"r", "e", "q", "u", "i", "r", "e", "d">>,
   withHeader |-> <<"w", "i", "t", "h", "H", "e", "a", "d", "e", "r">>,
   withFooter |-> <<"w", "i", "t", "h", "F", "o", "o", "t", "e", "r">>,
   elevation |-> <<"e", "l", "e", "v", "a", "t", "i", "o", "n">>,
   borderRadius |-> <<"b", "o", "r", "d", "e", "r", "R", "a", "d", "i", "u", "s">>,
   orientation |-> <<"o", "r", "i", "e", "n", "t", "a", "t", "i", "o", "n">>,
   display |-> <<"d", "i", "s", "p", "l", "a", "y">>,
   flexDirection |-> <<"f", "l", "e", "x", "D", "i",
        "r", "e", "c", "t", "i", "o", "n">>,
   gap |-> <<"g", "a", "p">>,
   justifyContent |-> <<"j", "u", "s", "t", "i", "f", "y",
        "C", "o", "n", "t", "e", "n", "t">>,
   padding |-> <<"p", "a", "d", "d", "i", "n", "g">>,
   fill |-> <<"f", "i", "l", "l">>,
   radius |-> <<"r", "a", "d", "i", "u", "s">>]
W_unknown == <<"u", "n", "k", "n", "o", "w", "n">>
N_Unnamed == <<"U", "n", "n", "a", "m", "e", "d", " ", "C", "o", "m", "p", "o", "n", "e",
               "n", "t">>
N_Navigation == <<"N", "a", "v", "i", "g", "a", "t", "i", "o", "n">>
N_Buttons == <<"B", "u", "t", "t", "o", "n", "s">>
N_Bottom == <<"B", "o", "t", "t", "o", "m">>

\* Library data as it is given to loadEDSLibrary.  The value of a property of
\* an EDS component is a string; "" is a falsy value.
RawButton ==
  [id |-> "eds-button", name |-> N_Button, type |-> W_button,
   properties |-> [variant |-> "primary", size |-> "md", children |-> "node",
                   disabled |-> ""]]
RawNavigation ==
  [id |-> "eds-nav", name |-> N_Navigation, type |-> W_navigation,
   properties |-> [orientation |-> "horizontal", variant |-> "default"]]
RawButtons ==
  [id |-> "eds-buttons", name |-> N_Buttons, type |-> W_button,
   properties |-> [fill |-> "solid", radius |-> "md", cornerRadius |-> "4"]]
RawBottom == [id |-> "eds-bottom", name |-> N_Bottom]
\* two buttons that carry no id
RawPlainButtons ==
  [name |-> N_Buttons, type |-> W_button, properties |-> [size |-> "md"]]
RawPlainButton ==
  [name |-> N_Button, type |-> W_button,
   properties |-> [variant |-> "primary", children |-> "node"]]

LibFull == [name |-> "EDS", components |-> <<RawButton, RawNavigation>>]
LibNames == [name |-> "EDS", components |-> <<RawButtons>>]
LibLoose == [name |-> "EDS", components |-> <<RawBottom>>]
LibEmpty == [name |-> "EDS", components |-> <<>>]
LibInvalid == [name |-> "EDS"]
LibAnonymous == [name |-> "EDS", components |-> <<RawPlainButtons, RawPlainButton>>]
\* libraries of one button that declares no property, and one of the
\* properties of a button pattern among others
ButtonWith(properties) ==
  [name |-> "EDS",
   components |-> <<[id |-> "eds-button", name |-> N_Button, type |-> W_button,
                     properties |-> properties]>>]
LibBare == ButtonWith(EmptyObject)
LibSized ==
  ButtonWith([size |-> "md", fill |-> "solid", radius |-> "md", cornerRadius |-> "4"])
\* two inputs, the type of the first one capitalised, the second one named
\* as the source component of InputDoc
N_TextInput == <<"T", "e", "x", "t", " ", "I", "n", "p", "u", "t">>
LibInputs ==
  [name |-> "EDS",
   components |-> <<[id |-> "eds-text-input", name |-> N_TextInput,
                     type |-> <<"I", "n", "p", "u", "t">>,
                     properties |-> [placeholder |-> "text"]],
                    [id |-> "eds-input", name |-> <<"I", "n", "p", "u", "t">>,
                     type |-> W_input, properties |-> [placeholder |-> "text"]]>>]
\* one button, its type written with a capital
LibCapital ==
  [name |-> "EDS",
   components |-> <<[id |-> "eds-button", name |-> N_Button,
                     type |-> <<"B", "u", "t", "t", "o", "n">>,
                     properties |-> [variant |-> "primary"]]>>]
LibraryData ==
  {LibFull, LibNames, LibLoose, LibEmpty, LibInvalid, LibAnonymous, LibBare, LibSized,
   LibInputs, LibCapital}
\* the values of `${Date.now()}-${Math.floor(Math.random() * 1000)}`
Stamps == {1, 2}
\* `eds-component-${Math.random().toString(36).substr(2, 9)}` for the i-th
\* component of the library, in the run with each stamp
Draws ==
  <<<<"eds-component-k3", "eds-component-x7">>,
    <<"eds-component-x7", "eds-component-a1">>>>
RandomId(stamp, i) == Draws[stamp][i]
\* the stamps that a payload is loaded with: both when ids are drawn for its
\* components, one otherwise (no method reads the id of the library)
StampsOf(libraryData) == IF libraryData = LibAnonymous THEN Stamps ELSE {1}

\* the defaults of lines 74-83; `random` is the id drawn for the component
EDSComponent(component, random) ==
  [id |-> IF Has(component, "id") /\ component.id # "" THEN component.id ELSE random,
   name |-> IF Has(component, "name") /\ component.name # <<>>
            THEN component.name ELSE N_Unnamed,
   type |-> IF Has(component, "type") /\ component.type # <<>>
            THEN component.type ELSE W_unknown,
   properties |-> IF Has(component, "properties") THEN component.properties
                  ELSE EmptyObject]

\* `!libraryData.components || !Array.isArray(libraryData.components)`
IsLibrary(libraryData) == Has(libraryData, "components")
EDSLibrary(libraryData, stamp) ==
  [id |-> <<"eds", stamp>>, name |-> libraryData.name,
   components |-> [i \in DOMAIN libraryData.components |->
                     EDSComponent(libraryData.components[i], RandomId(stamp, i))]]

\* the index of the greatest key, the first of them if there are several
\* (`sort((a, b) => b.key - a.key)[0]`, the sort being stable)
TopIndex(keys) ==
  CHOOSE j \in DOMAIN keys :
    /\ \A k \in DOMAIN keys : ~FLess(keys[j], keys[k])
    /\ \A k \in 1..(j - 1) : FLess(keys[k], keys[j])
\* the similarity of a name to the name of each component
NameSimilarities(name, edsComponents) ==
  [i \in DOMAIN edsComponents |-> calculateNameSimilarity(name, edsComponents[i].name)]
\* the best of the items if its similarity is above the threshold
BestAt(items, similarities, i, threshold) ==
  IF FLess(threshold, similarities[i])
  THEN Some([best |-> items[i], similarity |-> similarities[i]])
  ELSE None
BestMatch(items, similarities, threshold) ==
  IF items = <<>> THEN None
  ELSE BestAt(items, similarities, TopIndex(similarities), threshold)

IsTruthyString(v) == v # ""
PropertyMapping(figmaProperty, edsProperty, value, confidence) ==
  [figmaProperty |-> figmaProperty, edsProperty |-> edsProperty, value |-> <<value>>,
   confidence |-> confidence]

\* One `if (pattern.properties.f && edsComponent.properties.e) push(...)` of
\* the map*Properties methods (lines 217-480): test "truthy" is `a && b`,
\* test "defined" is `a !== undefined && b !== undefined`.
Rule(figmaProperty, edsProperty, test, confidence) ==
  [figma |-> figmaProperty, eds |-> edsProperty, test |-> test,
   confidence |-> confidence]
PropertyRules ==
  [button |-> <<Rule("variant", "variant", "truthy", 90),
                Rule("size", "size", "truthy", 80),
                Rule("label", "children", "truthy", 90),
                Rule("disabled", "disabled", "defined", 90)>>,
   input |-> <<Rule("type", "type", "truthy", 90),
               Rule("placeholder", "placeholder", "truthy", 90),
               Rule("disabled", "disabled", "defined", 90),
               Rule("required", "required", "defined", 70)>>,
   card |-> <<Rule("hasHeader", "withHeader", "defined", 80),
              Rule("hasFooter", "withFooter", "defined", 80),
              Rule("hasShadow", "elevation", "defined", 70),
              Rule("cornerRadius", "borderRadius", "defined", 90)>>,
   navigation |-> <<Rule("type", "orientation", "truthy", 90),
                    Rule("isHeader", "variant", "defined", 80),
                    Rule("isSidebar", "variant", "defined", 80)>>,
   layout |-> <<Rule("type", "display", "truthy", 90),
                Rule("type", "flexDirection", "truthy", 90),
                Rule("spacing", "gap", "defined", 80),
                Rule("alignment", "justifyContent", "truthy", 80),
                Rule("padding", "padding", "truthy", 90)>>]
\* the pattern type as a key of PropertyRules
TypeKey(type) ==
  IF type = T_button THEN "button"
  ELSE IF type = T_input THEN "input"
  ELSE IF type = T_card THEN "card"
  ELSE IF type = T_navigation THEN "navigation"
  ELSE IF type = T_layout THEN "layout"
  ELSE "unknown"

CardRadiusSizes == <<Px(0), Px(2), Px(4), Px(8), Px(16), Px(24)>>
MappedRadius(radius) ==
  IF radius \in Range(CardRadiusSizes) THEN radius
  ELSE findNearestStandardSize(radius, CardRadiusSizes)

RuleApplies(rule, pattern, edsComponent) ==
  LET p == pattern.properties
      e == edsComponent.properties
  IN /\ Has(p, rule.figma)
     /\ Has(e, rule.eds)
     /\ IF rule.test = "truthy"
        THEN /\ rule.figma = "padding" \/ p[rule.figma] # ""
             /\ IsTruthyString(e[rule.eds])
        ELSE rule.figma = "hasShadow" => p.hasShadow # "undefined"
     /\ rule.eds = "flexDirection" => p.type \in {"flex-row", "flex-column"}

RuleMapping(rule, pattern) ==
  LET p == pattern.properties
      v == p[rule.figma]
  IN IF rule.figma = "hasShadow"
     THEN PropertyMapping(rule.figma, rule.eds, IF v = "true" THEN 1 ELSE 0, 70)
     ELSE IF rule.figma = "cornerRadius"
     THEN PropertyMapping(rule.figma, rule.eds, MappedRadius(v),
                          IF MappedRadius(v) = v THEN 90 ELSE 70)
     ELSE IF rule.figma = "isHeader"
     THEN PropertyMapping(rule.figma, rule.eds, IF v THEN "header" ELSE "default", 80)
     ELSE IF rule.figma = "isSidebar"
     THEN PropertyMapping(rule.figma, rule.eds, IF v THEN "sidebar" ELSE "default", 80)
     ELSE IF rule.eds = "display"
     THEN PropertyMapping(rule.figma, rule.eds, IF v = "grid" THEN "grid" ELSE "flex", 90)
     ELSE IF rule.eds = "flexDirection"
     THEN PropertyMapping(rule.figma, rule.eds,
                          IF v = "flex-row" THEN "row" ELSE "column", 90)
     ELSE PropertyMapping(rule.figma, rule.eds, v, rule.confidence)

\* the propertyMappings of a mapping made from a pattern
PatternPropertyMappings(pattern, edsComponent) ==
  LET Applies(rule) == RuleApplies(rule, pattern, edsComponent)
      Mapped(rule) ==
        LET m == RuleMapping(rule, pattern)
        IN [m EXCEPT !.confidence = Hundredths(@)]
  IN IF TypeKey(pattern.type) = "unknown" THEN <<>>
     ELSE Map(Filter(PropertyRules[TypeKey(pattern.type)], Applies), Mapped)

ComponentMapping(figmaComponent, edsComponent, patternType, confidence, propertyMappings, matchedNodes) ==
  [id |-> <<"mapping", figmaComponent.id, edsComponent.id>>,
   figmaComponent |-> figmaComponent, edsComponent |-> edsComponent,
   patternType |-> patternType, confidence |-> confidence,
   propertyMappings |-> propertyMappings, matchedNodes |-> matchedNodes]

\* a second pass that takes every component for unmapped
IsMappedNever(mapped, component) == FALSE
IsMapped(mapped, component) ==
  \E i \in DOMAIN mapped : mapped[i].figmaComponent.id = component.id

\* the pattern a component is mapped by: the first of the most confident
\* patterns on its node, if the library has a component of that type
PatternsOn(detected, figmaComponent) ==
  Filter(detected, LAMBDA pattern : pattern.nodeId = figmaComponent.id)
\* a choice of the first pattern on the component, whatever its confidence
TopPatternFirst(found) == found[1]
TopPattern(found) ==
  found[TopIndex([i \in DOMAIN found |-> Hundredths(found[i].confidence)])]
OfType(edsComponents, type) ==
  Filter(edsComponents,
         LAMBDA edsComponent : toLowerCase(edsComponent.type) = toLowerCase(type))
\* the ids of the library components in alphabetical order
IdOrder ==
  <<"eds-bottom", "eds-button", "eds-buttons", "eds-component-a1", "eds-component-k3",
    "eds-component-x7", "eds-input", "eds-nav", "eds-text-input">>
IdRank(id) == CHOOSE r \in DOMAIN IdOrder : IdOrder[r] = id
\* a choice among the components of the type by their ids:
\* `matching.sort((a, b) => a.id.localeCompare(b.id))[0]`
PatternMatchById(figmaComponent, topPattern, matching) ==
  IF matching = <<>> THEN None
  ELSE Some([pattern |-> topPattern,
             edsComponent |->
               matching[CHOOSE j \in DOMAIN matching :
                          \A k \in DOMAIN matching :
                            IdRank(matching[j].id) <= IdRank(matching[k].id)]])
PatternMatchOf(figmaComponent, topPattern, matching) ==
  IF matching = <<>> THEN None
  ELSE Some([pattern |-> topPattern,
             edsComponent |->
               matching[TopIndex(NameSimilarities(figmaComponent.name, matching))]])
PatternMatchWith(library, figmaComponent, topPattern) ==
  PatternMatchOf(figmaComponent, topPattern,
                 OfType(library.components, topPattern.type))
PatternMatchAmong(library, figmaComponent, found) ==
  IF found = <<>> THEN None
  ELSE PatternMatchWith(library, figmaComponent, TopPattern(found))
PatternMatch(library, detected, figmaComponent) ==
  PatternMatchAmong(library, figmaComponent, PatternsOn(detected, figmaComponent))

\* mapComponentsBasedOnPatterns (lines 140-212)
PatternMapping(figmaComponent, m) ==
  ComponentMapping(figmaComponent, m.edsComponent, m.pattern.type,
                   Hundredths(m.pattern.confidence),
                   PatternPropertyMappings(m.pattern, m.edsComponent),
                   m.pattern.matchedNodes)
mapComponentsBasedOnPatterns(library, figma, detected) ==
  Map(Filter(figma, LAMBDA figmaComponent :
                      PatternMatch(library, detected, figmaComponent) # None),
      LAMBDA figmaComponent :
        PatternMapping(figmaComponent,
                       PatternMatch(library, detected, figmaComponent)[1]))

\* the keys of an EDS component's properties, in the order of the library data
EdsKeyOrder ==
  <<"variant", "size", "children", "disabled", "type", "placeholder", "required",
    "withHeader", "withFooter", "elevation", "borderRadius", "orientation", "display",
    "flexDirection", "gap", "justifyContent", "padding", "fill", "radius",
    "cornerRadius">>
EdsKeys(edsComponent) ==
  LET IsSet(k) == Has(edsComponent.properties, k) IN Filter(EdsKeyOrder, IsSet)

NameThreshold == Frac(6, 10)
PropertyThreshold == Frac(7, 10)

\* findBestPropertyMatch (lines 544-557)
PropertySimilarities(figmaProperty, keys) ==
  [i \in DOMAIN keys |->
     calculateNameSimilarity(KeyChars[figmaProperty], KeyChars[keys[i]])]
BestProperty(figmaProperty, keys) ==
  BestMatch(keys, PropertySimilarities(figmaProperty, keys), PropertyThreshold)
findBestPropertyMatch(figmaProperty, edsComponent) ==
  BestProperty(figmaProperty, EdsKeys(edsComponent))

\* the component a component is mapped to by its name
NameMatch(library, figmaComponent) ==
  BestMatch(library.components,
            NameSimilarities(figmaComponent.name, library.components), NameThreshold)

\* mapComponentsBasedOnNameAndProperties (lines 483-536), given the mappings
\* of the pattern pass
NamePropertyMapping(figmaProperty, value, match) ==
  [figmaProperty |-> figmaProperty, edsProperty |-> match.best, value |-> <<value>>,
   confidence |-> match.similarity]
NamePropertyMappings(figmaComponent, edsComponent) ==
  Map(Filter(ObjectKeysOf(figmaComponent.properties),
             LAMBDA k : findBestPropertyMatch(k, edsComponent) # None),
      LAMBDA k : NamePropertyMapping(k, figmaComponent.properties[k],
                                     findBestPropertyMatch(k, edsComponent)[1]))
NameMapping(figmaComponent, match) ==
  ComponentMapping(figmaComponent, match.best, W_unknown, match.similarity,
                   NamePropertyMappings(figmaComponent, match.best),
                   <<figmaComponent.id>>)
mapComponentsBasedOnNameAndProperties(library, figma, mapped) ==
  mapped
  \o Map(Filter(figma, LAMBDA figmaComponent :
                         /\ ~IsMapped(mapped, figmaComponent)
                         /\ NameMatch(library, figmaComponent) # None),
         LAMBDA figmaComponent :
           NameMapping(figmaComponent, NameMatch(library, figmaComponent)[1]))

RECURSIVE FSum(_)
FSum(fs) == IF fs = <<>> THEN FZero ELSE FAdd(Head(fs), FSum(Tail(fs)))

\* a weighting that forgets the base confidence when properties are mapped
WeightedConfidenceOfProperties(mapping, n) ==
  IF n > 0
  THEN FMul(FSum(Map(mapping.propertyMappings, LAMBDA pm : pm.confidence)), Frac(1, n))
  ELSE mapping.confidence
\* calculateMappingConfidence (lines 633-662) for one mapping.  The ratio
\* mapped / target properties is NaN for 0 / 0 (no adjustment) and Infinity
\* for n / 0 (the boost).
WeightedConfidence(mapping, n) ==
  IF n > 0
  THEN FAdd(FMul(mapping.confidence, Frac(6, 10)),
            FMul(FMul(FSum(Map(mapping.propertyMappings, LAMBDA pm : pm.confidence)),
                      Frac(1, n)),
                 Frac(4, 10)))
  ELSE mapping.confidence
\* an adjustment that lowers the well covered mappings and raises the others
AdjustedConfidenceReversed(n, targets, weighted) ==
  IF (IF targets = 0 THEN n > 0 ELSE 10 * n > 7 * targets)
  THEN FMax(FZero, FAdd(weighted, Frac(-1, 10)))
  ELSE IF targets # 0 /\ 10 * n < 3 * targets
  THEN FMin(FOne, FAdd(weighted, Frac(1, 10)))
  ELSE weighted
AdjustedConfidence(n, targets, weighted) ==
  IF (IF targets = 0 THEN n > 0 ELSE 10 * n > 7 * targets)
  THEN FMin(FOne, FAdd(weighted, Frac(1, 10)))
  ELSE IF targets # 0 /\ 10 * n < 3 * targets
  THEN FMax(FZero, FAdd(weighted, Frac(-1, 10)))
  ELSE weighted
AdjustMappingConfidence(mapping) ==
  [mapping EXCEPT !.confidence =
     AdjustedConfidence(Len(mapping.propertyMappings),
                        Cardinality(DOMAIN mapping.edsComponent.properties),
                        WeightedConfidence(mapping, Len(mapping.propertyMappings)))]

----------------------------------------------------------------------------
(* EDSMapperAgent: its inputs and its methods *)

MaxMapperNodes == 1

KInstance ==
  [name |-> N_NavItem, type |-> "INSTANCE", fills |-> <<SolidBlue>>,
   cornerRadius |-> Px(8)]
MapperKinds == {KComponent, KText, KInstance}
\* a button with a label, a button without one and a navigation item
ThreeComponentsDoc ==
  TreeDoc(<<0, 1, 2, 1, 1>>, <<KPanel, KComponent, KText, KComponent, KInstance>>)
\* a page that is a button with a label
LabelledButtonDoc == TreeDoc(<<0, 1>>, <<KComponent, KText>>)
\* an instance with a label below a page: a button by its shape only (a
\* page keeps none of its properties)
ShapedButtonDoc == TreeDoc(<<0, 1, 2>>, <<KPanel, KInstance, KText>>)
\* a component named Input with a fill, a radius and a text: an input by
\* its name and a button by its shape
N_Input == <<"I", "n", "p", "u", "t">>
KInput == [KComponent EXCEPT !.name = N_Input]
InputDoc == TreeDoc(<<0, 1, 2>>, <<KPanel, KInput, KText>>)
MapperDocs ==
  UNION {TreeDocsOf(MapperKinds, n) : n \in 0..MaxMapperNodes}
  \cup {LabelledButtonDoc, ShapedButtonDoc, InputDoc, ThreeComponentsDoc}

\* the components and nodes of the parser and the patterns of the analyzer
MapperInput(json) ==
  LET out == ParserOutput(json)
  IN [figmaComponents |-> out.components, figmaNodes |-> out.flattenedNodes,
      detectedPatterns |-> detectPatterns(<<>>, out.flattenedNodes).patterns]
MapperInputs == {MapperInput(json) : json \in MapperDocs}

\* initialize(figmaComponents, figmaNodes, detectedPatterns) (lines 42-52)
MapperInitialize(in) ==
  /\ figmaComponents' = in.figmaComponents
  /\ figmaNodes' = in.figmaNodes
  /\ detectedPatterns' = in.detectedPatterns
  /\ UNCHANGED <<edsLibrary, componentMappings, mapperCall, libraryCall>>

\* a catch block that forgets the loaded library
FailedLoadClears(previous) == None
\* the catch block of lines 92-95 rethrows; `this.edsLibrary = library`
\* (line 87) was not reached
FailedLoad(previous) == previous

\* loadEDSLibrary(libraryData) (lines 59-96): it throws on data without a
\* components array.  libraryCall is this call: how it ended and, when it
\* threw, the library that was loaded before it.
LoadEDSLibrary(libraryData, stamp) ==
  /\ IF IsLibrary(libraryData)
     THEN /\ edsLibrary' = Some(EDSLibrary(libraryData, stamp))
          /\ libraryCall' = Some([outcome |-> "returned"])
     ELSE /\ edsLibrary' = FailedLoad(edsLibrary)
          /\ libraryCall' = Some([outcome |-> "threw", before |-> edsLibrary])
  /\ UNCHANGED <<figmaComponents, figmaNodes, detectedPatterns, componentMappings,
                 mapperCall>>

RECURSIVE DetectedSortedInPlace(_)
\* `this.detectedPatterns.sort((a, b) => b.confidence - a.confidence)`
DetectedSortedInPlace(detected) ==
  IF detected = <<>> THEN <<>>
  ELSE LET i == TopIndex([j \in DOMAIN detected |-> Hundredths(detected[j].confidence)])
       IN <<detected[i]>>
          \o DetectedSortedInPlace(SubSeq(detected, 1, i - 1)
                                   \o SubSeq(detected, i + 1, Len(detected)))
\* this.detectedPatterns after the pattern pass: the sort of line 159 orders
\* a list of patternsByNodeId, which lines 144-151 built, and no pattern is
\* written to
DetectedAfterPass(detected) == detected

\* the two checks of lines 105-111
CannotMap(library, figma) == library = None \/ figma = <<>>

\* the three steps of lines 114-123
MapAll(library, figma, detected) ==
  Map(mapComponentsBasedOnNameAndProperties(
        library, figma, mapComponentsBasedOnPatterns(library, figma, detected)),
      AdjustMappingConfidence)

\* mapComponents() (lines 102-135); mapperCall records the call with the
\* library and components it ran on
ComponentMappingResult(figma, all) ==
  LET Unmapped(component) == ~IsMapped(all, component)
  IN [success |-> TRUE, mappings |-> all, mappedCount |-> Len(all),
      totalCount |-> Len(figma), unmappedComponents |-> Filter(figma, Unmapped)]
MapComponentsReturns(input, all) ==
  /\ componentMappings' = all
  /\ mapperCall' = Some([input |-> input, outcome |-> "returned",
                         result |-> ComponentMappingResult(input.figmaComponents, all)])
MapperNow ==
  [edsLibrary |-> edsLibrary, figmaComponents |-> figmaComponents,
   detectedPatterns |-> detectedPatterns]
MapComponents ==
  /\ IF CannotMap(edsLibrary, figmaComponents)
     THEN /\ mapperCall' = Some([input |-> MapperNow, outcome |-> "threw",
                                 before |-> componentMappings])
          /\ UNCHANGED componentMappings
          /\ UNCHANGED detectedPatterns
     ELSE /\ MapComponentsReturns(MapperNow,
                                  MapAll(edsLibrary[1], figmaComponents, detectedPatterns))
          /\ detectedPatterns' = DetectedAfterPass(detectedPatterns)
  /\ UNCHANGED <<edsLibrary, figmaComponents, figmaNodes, libraryCall>>

----------------------------------------------------------------------------
(* LLMOrchestratorAgent *)

\* the keys of initializePromptTemplates (lines 144-313)
TemplateKeys == {"react", "react-ts", "vue", "vue-ts", "angular", "html"}

\* `options?.typescript || false` of a framework config
UsesTypescript(config) ==
  Has(config, "options") /\ Has(config.options, "typescript") /\ config.options.typescript

\* getTemplateKeyFromFramework (lines 608-627), the config being set
getTemplateKeyFromFramework(config) ==
  IF config.name = "react" THEN (IF UsesTypescript(config) THEN "react-ts" ELSE "react")
  ELSE IF config.name = "vue" THEN (IF UsesTypescript(config) THEN "vue-ts" ELSE "vue")
  ELSE IF config.name = "angular" THEN "angular"
  ELSE IF config.name = "html" THEN "html"
  ELSE "react"

\* getLanguageFromFramework (lines 633-650), the config being set
getLanguageFromFramework(config) ==
  IF config.name \in {"react", "vue"}
  THEN (IF UsesTypescript(config) THEN "typescript" ELSE "javascript")
  ELSE IF config.name = "angular" THEN "typescript"
  ELSE IF config.name = "html" THEN "html"
  ELSE "javascript"

\* fillTemplate (lines 561-574).  A text is a sequence of characters.
\* `{{${key}}}` (line 566)
Placeholder(key) == <<"{", "{">> \o key \o <<"}", "}">>
StartsWith(text, prefix) ==
  Len(text) >= Len(prefix) /\ SubSeq(text, 1, Len(prefix)) = prefix
Drop(text, n) == SubSeq(text, n + 1, Len(text))
\* text.replace(new RegExp(placeholder, 'g'), value) (line 567): every
\* occurrence, left to right; what was put in is not searched again.  A `$`
\* of the value is taken as it is unless `$`, `&`, a quote or a digit follows.
RECURSIVE ReplaceAll(_, _, _)
ReplaceAll(text, placeholder, value) ==
  IF text = <<>> THEN <<>>
  ELSE IF StartsWith(text, placeholder)
  THEN value \o ReplaceAll(Drop(text, Len(placeholder)), placeholder, value)
  ELSE <<Head(text)>> \o ReplaceAll(Tail(text), placeholder, value)
\* The length of the match of /{{[^}]+}}/ at the start of the text, 0 if
\* there is none: two opening braces, one or more characters up to the
\* first closing brace, and a second closing brace right after it.
FirstClosing(text) ==
  IF \E j \in 3..Len(text) : text[j] = "}"
  THEN CHOOSE j \in 3..Len(text) : text[j] = "}" /\ \A i \in 3..(j - 1) : text[i] # "}"
  ELSE 0
MatchLength(text) ==
  LET j == FirstClosing(text)
  IN IF /\ StartsWith(text, <<"{", "{">>)
        /\ j >= 4
        /\ j + 1 <= Len(text)
        /\ text[j + 1] = "}"
     THEN j + 1 ELSE 0
\* result.replace(/{{[^}]+}}/g, '') (line 571)
RECURSIVE RemovePlaceholders(_)
RemovePlaceholders(text) ==
  IF text = <<>> THEN <<>>
  ELSE IF MatchLength(text) > 0 THEN RemovePlaceholders(Drop(text, MatchLength(text)))
  ELSE <<Head(text)>> \o RemovePlaceholders(Tail(text))
\* a fillTemplate that leaves what the replacements did not resolve
KeepRemaining(text) == text
\* the forEach over Object.entries(variables), in the order of insertion
RECURSIVE ReplaceEach(_, _)
ReplaceEach(text, variables) ==
  IF variables = <<>> THEN text
  ELSE ReplaceEach(ReplaceAll(text, Placeholder(Head(variables).key), Head(variables).value),
                   Tail(variables))
fillTemplate(template, variables) == RemovePlaceholders(ReplaceEach(template, variables))

\* The snippet family that the generators choose for a library component:
\* `mapping.edsComponent.type === 'button'` and so on, the generic snippet
\* (None) for every other type.
SnippetTypes == {W_button, W_input, W_card, W_navigation}
SnippetFamily(edsComponent) ==
  IF edsComponent.type \in SnippetTypes THEN Some(edsComponent.type) ELSE None
\* generateReactImports (lines 660-675) and generateReactJSX (lines 850-896)
generateReactImports(mapping) == SnippetFamily(mapping.edsComponent)
generateReactJSX(mapping) == SnippetFamily(mapping.edsComponent)

\* The first statement of the generation of a component that throws, "" if
\* none does.  `options` is None when the request has no options object.
\*   logName:   console.log reads mapping.figmaComponent.name (line 389)
\*   template:  no template for the key (lines 395-397)
\*   options:   options.typescript in prepareTemplateVariables
\*   name:      formatComponentName(undefined).replace
\*   eds:       mapping.edsComponent.description
ThrowsAt(mapping, options, config, templates) ==
  IF ~Has(mapping, "figmaComponent") THEN "logName"
  ELSE IF getTemplateKeyFromFramework(config) \notin templates THEN "template"
  ELSE IF options = None THEN "options"
  ELSE IF ~Has(mapping.figmaComponent, "name") THEN "name"
  ELSE IF ~Has(mapping, "edsComponent") THEN "eds"
  ELSE ""

\* `mapping.figmaComponent.name` where it may be undefined
NameOf(mapping) ==
  IF Has(mapping.figmaComponent, "name") THEN Some(mapping.figmaComponent.name) ELSE None

\* the object returned by generateComponentCode (lines 405-411); the code is
\* the template that was filled
GeneratedComponent(mapping, config) ==
  [id |-> mapping.id, name |-> NameOf(mapping),
   code |-> <<"template", getTemplateKeyFromFramework(config)>>,
   language |-> getLanguageFromFramework(config), success |-> TRUE]

\* the object built by the catch handler (lines 342-349)
FailedComponent(mapping, config, error) ==
  [id |-> mapping.id, name |-> NameOf(mapping), code |-> <<"error", error>>,
   language |-> getLanguageFromFramework(config), success |-> FALSE, error |-> error]

\* The catch handler reads mapping.figmaComponent.name before it builds the
\* artifact (line 341): without a figmaComponent the handler throws itself.
HandlerThrows(mapping) == ~Has(mapping, "figmaComponent")

\* one step of `selectedMappings.map(mapping => { try ... catch ... })`
GenerateOne(mapping, options, config, templates) ==
  LET at == ThrowsAt(mapping, options, config, templates)
  IN IF at = "" THEN [escaped |-> FALSE, artifact |-> GeneratedComponent(mapping, config)]
     ELSE IF HandlerThrows(mapping) THEN [escaped |-> TRUE]
     ELSE [escaped |-> FALSE, artifact |-> FailedComponent(mapping, config, at)]

\* generateLayoutCode in its try/catch (lines 355-368): every generator of
\* the layout reads the figmaComponent.name of every mapping
GenerateLayout(selected, options, config, templates) ==
  LET error ==
        IF getTemplateKeyFromFramework(config) \notin templates THEN "template"
        ELSE IF options = None THEN "options"
        ELSE IF \E i \in DOMAIN selected :
                  ~Has(selected[i], "figmaComponent")
                  \/ ~Has(selected[i].figmaComponent, "name")
        THEN "name"
        ELSE ""
  IN IF error = ""
     THEN [name |-> "Layout", code |-> <<"template", getTemplateKeyFromFramework(config)>>,
           language |-> getLanguageFromFramework(config), success |-> TRUE]
     ELSE [name |-> "Layout", code |-> <<"error", error>>,
           language |-> getLanguageFromFramework(config), success |-> FALSE,
           error |-> error]

\* `this.mappings.filter(mapping => request.mappingIds.includes(mapping.id))`
SelectedMappings(all, request) ==
  LET IsRequested(mapping) == mapping.id \in Range(request.mappingIds)
  IN Filter(all, IsRequested)

\* the two checks of lines 323-334
FrameworkNotSet(config, selected) == config = None
CannotGenerate(config, selected) == config = None \/ selected = <<>>

\* generateCode(request) (lines 320-380) as a function of the fields
generateCode(all, config, templates, request) ==
  LET selected == SelectedMappings(all, request)
      options == IF Has(request, "options") THEN Some(request.options) ELSE None
      One(mapping) == GenerateOne(mapping, options, config[1], templates)
      generated == Map(selected, One)
      Artifact(g) == g.artifact
      generatedComponents == Map(generated, Artifact)
  IN IF CannotGenerate(config, selected) THEN [outcome |-> "threw"]
     ELSE IF \E i \in DOMAIN generated : generated[i].escaped THEN [outcome |-> "threw"]
     ELSE [outcome |-> "returned",
           result |->
             [success |-> \A i \in DOMAIN generatedComponents :
                            generatedComponents[i].success,
              components |-> generatedComponents,
              layout |-> IF request.generateLayout
                         THEN Some(GenerateLayout(selected, options, config[1], templates))
                         ELSE None,
              framework |-> config[1].name]]

\* The mappings that the mapper makes of the three components with the
\* full library, and lists in which the second mapping lacks a field.
MapperMappings ==
  LET in == MapperInput(ThreeComponentsDoc)
  IN MapAll(EDSLibrary(LibFull, 1), in.figmaComponents, in.detectedPatterns)
Without(obj, key) == [k \in DOMAIN obj \ {key} |-> obj[k]]
WithSecond(ms, second) == [ms EXCEPT ![2] = second]
MappingLists ==
  {<<>>,
   MapperMappings,
   WithSecond(MapperMappings, Without(MapperMappings[2], "edsComponent")),
   WithSecond(MapperMappings, Without(MapperMappings[2], "figmaComponent")),
   WithSecond(MapperMappings,
              [MapperMappings[2] EXCEPT !.figmaComponent = Without(@, "name")])}

FrameworkConfigs ==
  {[name |-> "react", options |-> [typescript |-> FALSE]],
   [name |-> "react", options |-> [typescript |-> TRUE]],
   [name |-> "html"],
   [name |-> "svelte", options |-> EmptyObject]}

MappingId(i) == MapperMappings[i].id
InvalidId == <<"mapping", 0, "invalid-id">>
RequestedIds ==
  {<<>>, <<InvalidId>>, <<MappingId(1)>>, <<MappingId(3), MappingId(1)>>,
   <<MappingId(1), MappingId(1), InvalidId>>,
   <<MappingId(1), MappingId(2), MappingId(3)>>}
\* requests with and without an `options` object
Requests ==
  {[mappingIds |-> ids, generateLayout |-> layout, options |-> EmptyObject] :
     ids \in RequestedIds, layout \in BOOLEAN}
  \cup {[mappingIds |-> ids, generateLayout |-> TRUE] : ids \in RequestedIds}

\* initialize(mappings, edsComponents, patterns) (lines 117-130); the agent
\* uses only the mappings of the three
OrchestratorInitialize(ms) ==
  /\ mappings' = ms
  /\ promptTemplates' = TemplateKeys
  /\ UNCHANGED <<frameworkConfig, orchestratorCall>>

\* setFrameworkConfig(config) (lines 136-139)
SetFrameworkConfig(config) ==
  /\ frameworkConfig' = Some(config)
  /\ UNCHANGED <<mappings, promptTemplates, orchestratorCall>>

\* generateCode(request): it changes no field; orchestratorCall records the
\* call with the fields it ran on
GenerateCode(request) ==
  /\ orchestratorCall' =
       Some([request |-> request,
             input |-> [mappings |-> mappings, frameworkConfig |-> frameworkConfig]]
            @@ generateCode(mappings, frameworkConfig, promptTemplates, request))
  /\ UNCHANGED <<mappings, promptTemplates, frameworkConfig>>

----------------------------------------------------------------------------
(* CodeValidatorAgent *)

\* The validator reads the code of an artifact through substring tests and
\* counts of matches; a code is the record of what these tests give:
\*   imports        includes('import ') || includes('require(')
\*   openBraces, closeBraces, openParens, closeParens   the counts of { } ( )
\*   jsx            includes('JSX') || includes('<') && includes('/>')
\*   reactImport    includes('import React') or a `from 'react'`
\*   unclosedTemplate, unclosedScript   an opening tag without the closing one
\*   decorator      includes('@Component')
\*   plainTemplate  includes('template:') && !includes('`')
\*   doctype        toLowerCase().includes('<!doctype html>')
\*   openTags, closingTags   the counts of opening and of closing HTML tags
\*   badIndent      a line indented by more than 2 off the line before
\*   longLines      the number of lines of more than 100 characters
\*   singleQuotes, doubleQuotes   the counts of ' and "
\*   constName      "" without a `const Name =`, else "upper" or "lower" for
\*                  the case of the first letter of Name
\*   propsDot       includes('props.') && !includes('...props')
\*   plainVueName   a Vue `name:` without - or _
\*   mediaQueries   includes('@media')
\*   fixedPixels, relativeUnits   the counts of px lengths and relative lengths
\*   flexOrGrid     includes a `display: flex` or a `display: grid`
\*   viewport       includes('viewport') && includes('width=device-width')
CleanCode ==
  [imports |-> TRUE, openBraces |-> 3, closeBraces |-> 3, openParens |-> 2,
   closeParens |-> 2, jsx |-> TRUE, reactImport |-> TRUE, unclosedTemplate |-> FALSE,
   unclosedScript |-> FALSE, decorator |-> TRUE, plainTemplate |-> FALSE,
   doctype |-> TRUE, openTags |-> 4, closingTags |-> 4, badIndent |-> FALSE,
   longLines |-> 0, singleQuotes |-> 2, doubleQuotes |-> 0, constName |-> "upper",
   propsDot |-> FALSE, plainVueName |-> FALSE, mediaQueries |-> TRUE,
   fixedPixels |-> 0, relativeUnits |-> 0, flexOrGrid |-> TRUE, viewport |-> TRUE]

Severities == {"error", "warning", "info"}
ValidationIssue(kind, component, type, severity) ==
  [id |-> <<kind, component.id>>, type |-> type, severity |-> severity]
\* the issues of a list of [when, issue] whose condition holds, in order
IssuesWhen(checks) ==
  LET Holds(check) == check.when
      Issue(check) == check.issue
  IN Map(Filter(checks, Holds), Issue)
Check(when, issue) == [when |-> when, issue |-> issue]

\* validateComponentSyntax (lines 128-342).  The test for invalid JSX (line
\* 184) asks for `return (` to be there and not to be there: it never holds.
validateComponentSyntax(fw, component) ==
  LET code == component.code
      Syntax(kind, severity) == ValidationIssue(kind, component, "syntax", severity)
  IN IF fw \in {"react", "vue"}
     THEN IssuesWhen(
       <<Check(~code.imports, Syntax("syntax-missing-imports", "warning")),
         Check(code.openBraces # code.closeBraces,
               Syntax("syntax-unbalanced-braces", "error")),
         Check(code.openParens # code.closeParens,
               Syntax("syntax-unbalanced-parens", "error")),
         Check(fw = "react" /\ code.jsx /\ ~code.reactImport,
               Syntax("syntax-missing-react-import", "error")),
         Check(fw = "vue" /\ code.unclosedTemplate,
               Syntax("syntax-invalid-template", "error")),
         Check(fw = "vue" /\ code.unclosedScript,
               Syntax("syntax-invalid-script", "error"))>>)
     ELSE IF fw = "angular"
     THEN IssuesWhen(
       <<Check(~code.decorator, Syntax("syntax-missing-component-decorator", "error")),
         Check(code.plainTemplate, Syntax("syntax-invalid-template-syntax", "error"))>>)
     ELSE IF fw = "html"
     THEN IssuesWhen(
       <<Check(~code.doctype, Syntax("syntax-missing-doctype", "warning")),
         Check(code.openTags # code.closingTags,
               Syntax("syntax-unbalanced-html-tags", "error"))>>)
     ELSE <<>>

\* validateComponentStyle (lines 427-571)
validateComponentStyle(fw, component) ==
  LET code == component.code
  IN IssuesWhen(
       <<Check(code.badIndent,
               ValidationIssue("style-inconsistent-indent", component, "style",
                               "warning")),
         Check(code.longLines > 0,
               ValidationIssue("style-line-too-long", component, "style", "info")),
         Check(Min(code.singleQuotes, code.doubleQuotes) > 3,
               ValidationIssue("style-inconsistent-quotes", component, "style", "info")),
         Check(fw = "react" /\ code.constName = "lower",
               ValidationIssue("style-component-naming", component, "style-critical",
                               "warning")),
         Check(fw = "react" /\ code.propsDot,
               ValidationIssue("style-prop-destructuring", component, "style", "info")),
         Check(fw = "vue" /\ code.plainVueName,
               ValidationIssue("style-component-naming", component, "style", "info"))>>)

\* validateComponentResponsiveness (lines 661-742)
validateComponentResponsiveness(fw, component) ==
  LET code == component.code
      Responsiveness(kind, severity) ==
        ValidationIssue(kind, component, "responsiveness", severity)
  IN IssuesWhen(
       <<Check(~code.mediaQueries /\ fw # "react",
               Responsiveness("responsiveness-no-media-queries", "warning")),
         Check(/\ code.fixedPixels > 5
               /\ code.relativeUnits = 0 \/ 2 * code.relativeUnits < code.fixedPixels,
               Responsiveness("responsiveness-fixed-units", "warning")),
         Check(~code.flexOrGrid /\ NameHas(component.name, W_layout),
               Responsiveness("responsiveness-no-flexible-layout", "warning")),
         Check(fw = "html" /\ ~code.viewport,
               Responsiveness("responsiveness-no-viewport-meta", "error"))>>)

\* the artifacts that a check visits: the components, then the layout as a
\* component with the id 'layout' (lines 344-355)
CheckedArtifacts(generated) ==
  generated.components
  \o (IF generated.layout = None THEN <<>>
      ELSE <<[id |-> "layout", name |-> generated.layout[1].name,
              code |-> generated.layout[1].code]>>)

CountWhere(issues, Test(_)) == Len(Filter(issues, Test))
IsError(issue) == issue.severity = "error"
IsWarning(issue) == issue.severity = "warning"
IsInfo(issue) == issue.severity = "info"
\* `severity === 'error' || (severity === 'warning' && type === 'style-critical')`
IsCritical(issue) ==
  issue.severity = "error" \/ (issue.severity = "warning" /\ issue.type = "style-critical")
IsPlainWarning(issue) == issue.severity = "warning" /\ issue.type # "style-critical"

\* Scores are in thousandths.
\* calculateSyntaxScore (lines 361-379)
calculateSyntaxScore(issues) ==
  Max(0, 1000 - (300 * CountWhere(issues, IsError) + 100 * CountWhere(issues, IsWarning)
                 + 30 * CountWhere(issues, IsInfo)))
\* calculateStyleScore (lines 590-615)
calculateStyleScore(issues) ==
  Max(0, 1000 - (250 * CountWhere(issues, IsCritical)
                 + 100 * CountWhere(issues, IsPlainWarning)
                 + 20 * CountWhere(issues, IsInfo)))
\* calculateResponsivenessScore (lines 761-779)
calculateResponsivenessScore(issues) ==
  Max(0, 1000 - (300 * CountWhere(issues, IsError) + 150 * CountWhere(issues, IsWarning)
                 + 50 * CountWhere(issues, IsInfo)))
\* an overall score that adds the three scores without their weights
calculateOverallScoreUnweighted(syntaxScore, styleScore, responsivenessScore) ==
  10 * (syntaxScore + styleScore + responsivenessScore)
\* calculateOverallScore (lines 788-800), in ten-thousandths
calculateOverallScore(syntaxScore, styleScore, responsivenessScore) ==
  5 * syntaxScore + 3 * styleScore + 2 * responsivenessScore
ProductionScore == 8000

\* checkSyntax, checkStyle and checkResponsiveness (lines 93-122, 385-420,
\* 621-655) without their pushes to this.validationIssues
SyntaxCheckResult(issues) ==
  [passed |-> CountWhere(issues, IsError) = 0,
   score |-> calculateSyntaxScore(issues), issues |-> issues]
checkSyntax(fw, generated) ==
  SyntaxCheckResult(
    Flat(Map(CheckedArtifacts(generated),
             LAMBDA component : validateComponentSyntax(fw, component))))
StyleCheckResult(issues) ==
  [passed |-> CountWhere(issues, IsCritical) = 0,
   score |-> calculateStyleScore(issues), issues |-> issues,
   criticalIssues |-> CountWhere(issues, IsCritical)]
checkStyle(fw, generated) ==
  StyleCheckResult(
    Flat(Map(CheckedArtifacts(generated),
             LAMBDA component : validateComponentStyle(fw, component))))
ResponsivenessCheckResult(issues) ==
  [passed |-> calculateResponsivenessScore(issues) >= 700,
   score |-> calculateResponsivenessScore(issues), issues |-> issues]
checkResponsiveness(fw, generated) ==
  ResponsivenessCheckResult(
    Flat(Map(CheckedArtifacts(generated),
             LAMBDA component : validateComponentResponsiveness(fw, component))))

\* `syntaxResults.issues.length === 0` (line 71)
SyntaxBlocks(syntaxResults) == Len(syntaxResults.issues) # 0
\* the decision of lines 70-72
IsProductionReady(overallScore, syntaxResults, styleResults) ==
  /\ overallScore >= ProductionScore
  /\ ~SyntaxBlocks(syntaxResults)
  /\ styleResults.criticalIssues = 0

(* Generation results given to the validator *)

MaxValidations == 2

Code(overrides) == overrides @@ CleanCode
\* `// Error generating component: <message>`, the code of a failed artifact
ErrorComment ==
  Code([imports |-> FALSE, openBraces |-> 0, closeBraces |-> 0, openParens |-> 0,
        closeParens |-> 0, jsx |-> FALSE, reactImport |-> FALSE, decorator |-> FALSE,
        doctype |-> FALSE, openTags |-> 0, closingTags |-> 0, singleQuotes |-> 0,
        constName |-> "", mediaQueries |-> FALSE, flexOrGrid |-> FALSE,
        viewport |-> FALSE])
\* a function that builds no element and imports nothing
NoImports == Code([imports |-> FALSE, jsx |-> FALSE, reactImport |-> FALSE])
\* a fragment: no import, no doctype, no decorator
Fragment ==
  Code([imports |-> FALSE, reactImport |-> FALSE, decorator |-> FALSE,
        doctype |-> FALSE, viewport |-> FALSE])
Unbalanced == Code([openBraces |-> 4, openTags |-> 5])
LowercaseName == Code([constName |-> "lower"])
\* long lines, both kinds of quotes, props read through `props.`
Untidy ==
  Code([longLines |-> 2, singleQuotes |-> 4, doubleQuotes |-> 5, propsDot |-> TRUE,
        plainVueName |-> TRUE])
\* uneven indentation, lengths in pixels, no media query, no flex or grid
Sloppy ==
  Code([badIndent |-> TRUE, fixedPixels |-> 6, relativeUnits |-> 2,
        mediaQueries |-> FALSE, flexOrGrid |-> FALSE])
Codes == {CleanCode, ErrorComment, NoImports, Fragment, Unbalanced, LowercaseName,
          Untidy, Sloppy}

Frameworks == {"react", "vue", "angular", "html"}
Artifact(id, name, code) ==
  [id |-> id, name |-> name, code |-> code, success |-> code # ErrorComment]
GeneratedLayout(code) ==
  [name |-> N_Layout, code |-> code, success |-> code # ErrorComment]
\* a button of each kind of code, and two pairs of a button and a grid layout
ArtifactLists ==
  {<<>>}
  \cup {<<Artifact("1", N_Button, code)>> : code \in Codes}
  \cup {<<Artifact("1", N_Button, Sloppy), Artifact("2", N_GridLayout, Sloppy)>>,
        <<Artifact("1", N_Button, CleanCode), Artifact("2", N_GridLayout, ErrorComment)>>}
CodeGenerationResult(fw, artifacts, layout) ==
  [success |-> \A i \in DOMAIN artifacts : artifacts[i].success,
   components |-> artifacts, layout |-> layout, framework |-> fw]
\* every list without a layout, and the pairs with a layout
GenerationResults ==
  {CodeGenerationResult(fw, artifacts, None) :
     fw \in Frameworks, artifacts \in ArtifactLists}
  \cup {CodeGenerationResult(fw, artifacts, Some(GeneratedLayout(code))) :
          fw \in Frameworks, artifacts \in {a \in ArtifactLists : Len(a) = 2},
          code \in {CleanCode, Sloppy}}

(* The methods of the validator *)

\* initialize (lines 34-40)
ValidatorInitialize(generated) ==
  /\ generatedCode' = Some(generated)
  /\ framework' = generated.framework
  /\ validationIssues' = <<>>
  /\ UNCHANGED <<validatorCall, validatorCalls>>

\* validateCode (lines 46-87); each check pushes its issues to
\* this.validationIssues, which only initialize empties
ValidationResult(syntaxResults, styleResults, responsivenessResults, overallScore, issues) ==
  [success |-> CountWhere(issues, IsError) = 0,
   syntaxCheck |-> syntaxResults,
   styleCheck |-> styleResults,
   responsivenessCheck |-> responsivenessResults,
   overallScore |-> overallScore,
   isProductionReady |-> IsProductionReady(overallScore, syntaxResults, styleResults),
   issues |-> issues]
ValidationOf(recorded, syntaxResults, styleResults, responsivenessResults) ==
  ValidationResult(syntaxResults, styleResults, responsivenessResults,
                   calculateOverallScore(syntaxResults.score, styleResults.score,
                                         responsivenessResults.score),
                   recorded \o syntaxResults.issues \o styleResults.issues
                   \o responsivenessResults.issues)
validateCode(generated, fw, recorded) ==
  ValidationOf(recorded, checkSyntax(fw, generated), checkStyle(fw, generated),
               checkResponsiveness(fw, generated))

NoGeneratedCode(generated) == generated = None

ValidateCodeReturns(input, result) ==
  /\ validatorCall' = Some([input |-> input, outcome |-> "returned", result |-> result])
  /\ validationIssues' = result.issues
ValidateCode ==
  /\ validatorCalls < MaxValidations
  /\ validatorCalls' = validatorCalls + 1
  /\ IF NoGeneratedCode(generatedCode)
     THEN /\ validatorCall' = Some([input |-> generatedCode, outcome |-> "threw"])
          /\ UNCHANGED validationIssues
     ELSE ValidateCodeReturns(generatedCode,
                              validateCode(generatedCode[1], framework, validationIssues))
  /\ UNCHANGED <<generatedCode, framework>>

----------------------------------------------------------------------------
(* Construction of the other agents *)

AnalyzerInit ==
  /\ aDesignTree = None
  /\ aFlattenedNodes = <<>>
  /\ aStyles = EmptyObject
  /\ aComponents = <<>>
  /\ patterns = <<>>
  /\ styleIssues = <<>>
  /\ analyzerCall = None
  /\ analyzerPrev = None
  /\ analyzerCalls = 0

MapperInit ==
  /\ edsLibrary = None
  /\ figmaComponents = <<>>
  /\ figmaNodes = <<>>
  /\ detectedPatterns = <<>>
  /\ componentMappings = <<>>
  /\ mapperCall = None
  /\ libraryCall = None

OrchestratorInit ==
  /\ mappings = <<>>
  /\ promptTemplates = {}
  /\ frameworkConfig = None
  /\ orchestratorCall = None

ValidatorInit ==
  /\ generatedCode = None
  /\ validationIssues = <<>>
  /\ framework = "react"
  /\ validatorCall = None
  /\ validatorCalls = 0

HelperInit == helperCall = None

Init ==
  /\ ParserInit /\ AnalyzerInit /\ MapperInit /\ OrchestratorInit /\ ValidatorInit
  /\ HelperInit

----------------------------------------------------------------------------
(* The parser on its own *)

\* the fields of all agents but one
notParser == <<analyzerVars, mapperVars, orchestratorVars, validatorVars, helperVars>>
notAnalyzer == <<parserVars, mapperVars, orchestratorVars, validatorVars, helperVars>>
notMapper == <<parserVars, analyzerVars, orchestratorVars, validatorVars, helperVars>>
notOrchestrator == <<parserVars, analyzerVars, mapperVars, validatorVars, helperVars>>
notValidator == <<parserVars, analyzerVars, mapperVars, orchestratorVars, helperVars>>
agentVars == <<parserVars, analyzerVars, mapperVars, orchestratorVars, validatorVars>>

ParserNext == \E json \in JsonDocs : ParseJson(json) /\ UNCHANGED notParser

SpecParser == Init /\ [][ParserNext]_vars

----------------------------------------------------------------------------
(* The analyzer on its own *)

AnalyzerNext ==
  \/ AnalyzerNew /\ UNCHANGED notAnalyzer
  \/ \E in \in AnalyzerInputs : AnalyzerInitialize(in) /\ UNCHANGED notAnalyzer
  \/ AnalyzeDesign /\ UNCHANGED notAnalyzer

SpecAnalyzer == Init /\ [][AnalyzerNext]_vars

----------------------------------------------------------------------------
(* The mapper on its own *)

MapperNext ==
  \/ \E in \in MapperInputs : MapperInitialize(in) /\ UNCHANGED notMapper
  \/ \E libraryData \in LibraryData :
       \E stamp \in StampsOf(libraryData) :
         LoadEDSLibrary(libraryData, stamp) /\ UNCHANGED notMapper
  \/ MapComponents /\ UNCHANGED notMapper

SpecMapper == Init /\ [][MapperNext]_vars

----------------------------------------------------------------------------
(* The orchestrator on its own *)

OrchestratorNext ==
  \/ \E ms \in MappingLists : OrchestratorInitialize(ms) /\ UNCHANGED notOrchestrator
  \/ \E config \in FrameworkConfigs : SetFrameworkConfig(config) /\ UNCHANGED notOrchestrator
  \/ \E request \in Requests : GenerateCode(request) /\ UNCHANGED notOrchestrator

SpecOrchestrator == Init /\ [][OrchestratorNext]_vars

----------------------------------------------------------------------------
(* The validator on its own *)

ValidatorNext ==
  \/ \E generated \in GenerationResults :
       ValidatorInitialize(generated) /\ UNCHANGED notValidator
  \/ ValidateCode /\ UNCHANGED notValidator

SpecValidator == Init /\ [][ValidatorNext]_vars

----------------------------------------------------------------------------
(* The name similarity of the mapper on its own: calculateNameSimilarity   *)
(* is a private method without side effects, called here on every pair of  *)
(* short names over an alphabet with two letters, a capital and a          *)
(* character that the cleaning removes.                                    *)

MaxNameLen == 3
NameAlphabet == {"a", "b", "A", "-"}
RECURSIVE NamesOfLen(_)
NamesOfLen(n) ==
  IF n = 0 THEN {<<>>}
  ELSE {Append(name, ch) : name \in NamesOfLen(n - 1), ch \in NameAlphabet}
ShortNames == UNION {NamesOfLen(n) : n \in 0..MaxNameLen}

\* one call, from a state in which no helper was called yet
CalculateNameSimilarity(name1, name2) ==
  /\ helperCall = None
  /\ helperCall' = Some([method |-> "calculateNameSimilarity", name1 |-> name1,
                         name2 |-> name2,
                         result |-> calculateNameSimilarity(name1, name2)])

SimilarityNext ==
  \E name1 \in ShortNames, name2 \in ShortNames :
    CalculateNameSimilarity(name1, name2) /\ UNCHANGED agentVars

SpecSimilarity == Init /\ [][SimilarityNext]_vars

----------------------------------------------------------------------------
(* The confidence adjustment of the mapper on its own:                     *)
(* calculateMappingConfidence runs over this.componentMappings, here two   *)
(* mappings with up to MaxPropertyMappings property mappings each, onto    *)
(* components with up to MaxTargets properties.                            *)

MaxPropertyMappings == 3
MaxTargets == 4
BaseConfidences == {Hundredths(50), Hundredths(100)}
PropertyConfidences == {Hundredths(40), Hundredths(100)}
RECURSIVE ConfidenceLists(_)
ConfidenceLists(n) ==
  IF n = 0 THEN {<<>>}
  ELSE {Append(cs, c) : cs \in ConfidenceLists(n - 1), c \in PropertyConfidences}
\* a component with the first `targets` keys of the library's properties
TargetComponent(targets) ==
  [id |-> 1, name |-> N_Button, type |-> W_button,
   properties |-> [k \in {EdsKeyOrder[i] : i \in 1..targets} |-> "x"]]
SampleMapping(base, cs, targets) ==
  ComponentMapping([id |-> 1, name |-> N_Button], TargetComponent(targets), W_button,
                   base, Map(cs, LAMBDA c : PropertyMapping("variant", "variant", "x", c)),
                   <<1>>)
SampleMappings ==
  {SampleMapping(base, cs, targets) :
     base \in BaseConfidences,
     cs \in UNION {ConfidenceLists(n) : n \in 0..MaxPropertyMappings},
     targets \in 0..MaxTargets}

\* calculateMappingConfidence() on the list <<first, second>>
CalculateMappingConfidence(first, second) ==
  /\ helperCall = None
  /\ helperCall' = Some([method |-> "calculateMappingConfidence",
                         mappings |-> <<first, second>>,
                         result |-> Map(<<first, second>>, AdjustMappingConfidence)])

ConfidenceNext ==
  \E first \in SampleMappings, second \in SampleMappings :
    CalculateMappingConfidence(first, second) /\ UNCHANGED agentVars

SpecConfidence == Init /\ [][ConfidenceNext]_vars

----------------------------------------------------------------------------
(* The template filling of the orchestrator on its own: fillTemplate is a  *)
(* private method without side effects, called here on templates of up to  *)
(* MaxFragments fragments and on the variables `imports` and `template`,   *)
(* in the order in which prepareTemplateVariables sets them.               *)

MaxFragments == 3
K_imports == <<"i", "m", "p", "o", "r", "t", "s">>
K_template == <<"t", "e", "m", "p", "l", "a", "t", "e">>
K_styles == <<"s", "t", "y", "l", "e", "s">>
\* `<t>`, and the placeholders of two variables and of one that is not set
Fragments ==
  {<<"<", "t", ">">>, Placeholder(K_imports), Placeholder(K_template), Placeholder(K_styles)}
RECURSIVE FragmentLists(_)
FragmentLists(n) ==
  IF n = 0 THEN {<<>>}
  ELSE {Append(fs, f) : fs \in FragmentLists(n - 1), f \in Fragments}
Templates == {Flat(fs) : fs \in UNION {FragmentLists(n) : n \in 1..MaxFragments}}
\* `{{ label }}`, the interpolation of the Vue and Angular button markup
\* (lines 1027 and 1247)
Interpolation == <<"{", "{", " ", "l", " ", "}", "}">>
ButtonMarkup == <<"<", "b", ">">> \o Interpolation \o <<"<", "/", "b", ">">>
\* `{ 'a': d }` of a :class binding and `${v}` of a template literal
ClassObject == <<"{", "a", ":", "d", "}">>
DollarBrace == <<"$", "{", "v", "}">>
TemplateValues == {<<>>, <<"x">>, ButtonMarkup, ClassObject, DollarBrace}
VariableLists ==
  LET Entries(key) == {<<>>} \cup {<<[key |-> key, value |-> v]>> : v \in TemplateValues}
  IN {is \o ts : is \in Entries(K_imports), ts \in Entries(K_template)}

\* one call, from a state in which no helper was called yet
FillTemplate(template, variables) ==
  /\ helperCall = None
  /\ helperCall' = Some([method |-> "fillTemplate", template |-> template,
                         variables |-> variables,
                         result |-> fillTemplate(template, variables)])

TemplateNext ==
  \E template \in Templates, variables \in VariableLists :
    FillTemplate(template, variables) /\ UNCHANGED agentVars

SpecTemplate == Init /\ [][TemplateNext]_vars

----------------------------------------------------------------------------
(* The four stages after the parser, side by side.  The agents share no    *)
(* field, so their calls interleave freely; each is given few inputs: one  *)
(* that meets the prerequisite of its entry point and one that does not.   *)

EmptyDoc == TreeDoc(<<>>, <<>>)
StageDocs == {EmptyDoc, LabelledButtonDoc}
StageAnalyzerInputs == {ParserOutput(json) : json \in StageDocs}
\* the mapper also gets patterns that are not in the order of their confidences
StageMapperInputs == {MapperInput(json) : json \in StageDocs \cup {InputDoc}}
StageLibraryData == {LibFull}
StageMappings ==
  LET in == MapperInput(LabelledButtonDoc)
  IN MapAll(EDSLibrary(LibFull, 1), in.figmaComponents, in.detectedPatterns)
StageConfig == [name |-> "react", options |-> [typescript |-> FALSE]]
StageRequests ==
  {[mappingIds |-> ids, generateLayout |-> FALSE, options |-> EmptyObject] :
     ids \in {<<InvalidId>>, <<StageMappings[1].id, InvalidId>>}}
StageResult ==
  CodeGenerationResult("react", <<Artifact("1", N_Button, NoImports)>>, None)

Next ==
  \/ \E in \in StageAnalyzerInputs : AnalyzerInitialize(in) /\ UNCHANGED notAnalyzer
  \/ AnalyzeDesign /\ UNCHANGED notAnalyzer
  \/ \E in \in StageMapperInputs : MapperInitialize(in) /\ UNCHANGED notMapper
  \/ \E libraryData \in StageLibraryData :
       LoadEDSLibrary(libraryData, 1) /\ UNCHANGED notMapper
  \/ MapComponents /\ UNCHANGED notMapper
  \/ OrchestratorInitialize(StageMappings) /\ UNCHANGED notOrchestrator
  \/ SetFrameworkConfig(StageConfig) /\ UNCHANGED notOrchestrator
  \/ \E request \in StageRequests : GenerateCode(request) /\ UNCHANGED notOrchestrator
  \/ ValidatorInitialize(StageResult) /\ UNCHANGED notValidator
  \/ ValidateCode /\ UNCHANGED notValidator

Spec == Init /\ [][Next]_vars

----------------------------------------------------------------------------
(* Claims about the parser (checked under SpecParser) *)

ParserReturned == parserCall # None /\ parserCall[1].outcome = "returned"
ParserThrew == parserCall # None /\ parserCall[1].outcome = "threw"
ParsedJson == parserCall[1].json
NodesWithId(id) == {i \in DOMAIN flattenedNodes : flattenedNodes[i].id = id}

\* C1: after a successful parseJson of a document of N nodes the flattened
\* list has exactly N entries, every node of the document exactly once; a
\* page has depth 0 and any other node has the depth of its parent plus 1.
C1_FlattenComplete ==
  ParserReturned =>
    /\ Len(flattenedNodes) = CountNodes(ParsedJson)
    /\ \A id \in 1..ParsedJson.n : Cardinality(NodesWithId(id)) = 1
    /\ \A i \in DOMAIN flattenedNodes :
         LET node == flattenedNodes[i]
             rawParent == ParsedJson.parent[node.id]
         IN IF rawParent = 0 THEN node.depth = 0
            ELSE \E j \in NodesWithId(rawParent) :
                   node.depth = flattenedNodes[j].depth + 1

\* a successful parse of a page with a child that has a child of its own
C1_Witness ==
  /\ ParserReturned
  /\ \E i \in DOMAIN flattenedNodes : flattenedNodes[i].depth = 2

\* C2: after a successful parseJson every non-null parentId is the id of a
\* flattened node, and the children list of a node is the list of the ids of
\* the flattened nodes whose parentId is its id.
C2_ParentChildConsistent ==
  ParserReturned =>
    /\ \A i \in DOMAIN flattenedNodes :
         flattenedNodes[i].parentId # NoParent =>
           NodesWithId(flattenedNodes[i].parentId) # {}
    /\ \A i \in DOMAIN flattenedNodes :
         LET node == flattenedNodes[i]
             IsChild(other) == other.parentId = node.id
             Id(other) == other.id
         IN node.children = Map(Filter(flattenedNodes, IsChild), Id)

\* a successful parse with a node that has two children, one of them a parent
C2_Witness ==
  /\ ParserReturned
  /\ \E i \in DOMAIN flattenedNodes : Len(flattenedNodes[i].children) = 2
  /\ \E i \in DOMAIN flattenedNodes : flattenedNodes[i].parentId # NoParent

\* C4: parseJson of a document without `document` or `document.children`
\* throws, and a parser that was fresh before the call (its first call) still has no flattened
\* node, no component and no design tree.
C4_MalformedThrowsClean ==
  (parserCall # None /\ ~IsFigmaFile(ParsedJson)) =>
    /\ ParserThrew
    /\ parserCalls = 1 =>
         /\ flattenedNodes = <<>>
         /\ components = <<>>
         /\ designTree = None

\* `{}` was given to a fresh parser
C4_Witness ==
  /\ parserCall # None
  /\ ParsedJson = NoDocument
  /\ parserCalls = 1

\* C5 (as claimed): whenever parseJson throws, the getters show nothing of
\* the failed document; for the first call on a parser, whose fields held
\* nothing before, this means they still hold nothing.
C5_NoPartialOutputOnThrow ==
  (ParserThrew /\ parserCalls = 1) => ParserNow = ParserFresh

----------------------------------------------------------------------------
(* Claims about the analyzer (checked under SpecAnalyzer) *)

AnalyzerReturned == analyzerCall # None /\ analyzerCall[1].outcome = "returned"
ReturnedPatterns == analyzerCall[1].patternDetection.patterns
ReturnedIssues == analyzerCall[1].styleValidation.issues

\* C6: every pattern that analyzeDesign returns has a confidence between 0
\* and 1 (0 and 100 hundredths) after the name bonus, the matched-node bonus
\* and the few-properties penalty.
C6_ConfidenceInUnitRange ==
  AnalyzerReturned =>
    \A i \in DOMAIN ReturnedPatterns :
      /\ 0 <= ReturnedPatterns[i].confidence
      /\ ReturnedPatterns[i].confidence <= 100

\* a returned pattern that got both bonuses, and one that got none
C6_Witness ==
  /\ AnalyzerReturned
  /\ \E i \in DOMAIN ReturnedPatterns :
       /\ includes(toLowerCase(ReturnedPatterns[i].name), ReturnedPatterns[i].type)
       /\ Len(ReturnedPatterns[i].matchedNodes) > 3
       /\ ReturnedPatterns[i].confidence = CardConfidence + 15
  /\ \E i \in DOMAIN ReturnedPatterns :
       ReturnedPatterns[i].confidence = NavigationConfidence

\* C7: an analyzeDesign that runs on the same design tree, nodes, styles and
\* components as the call before it, on the same analyzer or on a new one,
\* returns the same pattern list and the same style-issue list.
C7_RerunIsIdentical ==
  (/\ AnalyzerReturned
   /\ analyzerPrev # None
   /\ analyzerPrev[1].input = analyzerCall[1].input) =>
    /\ analyzerPrev[1].outcome = "returned"
    /\ analyzerPrev[1].patternDetection = analyzerCall[1].patternDetection
    /\ analyzerPrev[1].styleValidation = analyzerCall[1].styleValidation

\* two calls in a row on one analyzer with the same inputs, with patterns and
\* issues to carry over
C7_Witness ==
  /\ AnalyzerReturned
  /\ analyzerPrev # None
  /\ analyzerPrev[1].input = analyzerCall[1].input
  /\ patterns # <<>>
  /\ styleIssues # <<>>
  /\ ReturnedPatterns # <<>>
  /\ ReturnedIssues # <<>>

----------------------------------------------------------------------------
(* Claims about the mapper (checked under SpecMapper) *)

MapperReturned == mapperCall # None /\ mapperCall[1].outcome = "returned"
MappingResult == mapperCall[1].result
SourceComponents == mapperCall[1].input.figmaComponents
MappingsOf(component) ==
  {i \in DOMAIN MappingResult.mappings :
     MappingResult.mappings[i].figmaComponent = component}

\* C10: in a result of mapComponents, mappedCount plus the number of
\* unmapped components is totalCount, which is the number of source
\* components; a source component is in at most one mapping; and the
\* unmapped components are the source components that are in no mapping.
C10_MappingCountsAddUp ==
  MapperReturned =>
    /\ MappingResult.mappedCount + Len(MappingResult.unmappedComponents)
         = MappingResult.totalCount
    /\ MappingResult.totalCount = Len(SourceComponents)
    /\ MappingResult.mappedCount = Len(MappingResult.mappings)
    /\ \A i \in DOMAIN SourceComponents :
         Cardinality(MappingsOf(SourceComponents[i])) <= 1
    /\ LET InNoMapping(component) == MappingsOf(component) = {}
       IN MappingResult.unmappedComponents = Filter(SourceComponents, InNoMapping)

\* a result with a mapping by pattern, a mapping by name and an unmapped
\* component
C10_Witness ==
  /\ MapperReturned
  /\ \E i \in DOMAIN MappingResult.mappings :
       MappingResult.mappings[i].patternType = T_button
  /\ \E i \in DOMAIN MappingResult.mappings :
       MappingResult.mappings[i].patternType = W_unknown
  /\ MappingResult.unmappedComponents # <<>>

----------------------------------------------------------------------------
(* Claims about the orchestrator (checked under SpecOrchestrator) *)

GenerationCalled == orchestratorCall # None
Call == orchestratorCall[1]
CallSelected == SelectedMappings(Call.input.mappings, Call.request)
CallOptions == IF Has(Call.request, "options") THEN Some(Call.request.options) ELSE None
\* the generation of the i-th selected mapping of the call throws
GenerationThrows(i) ==
  ThrowsAt(CallSelected[i], CallOptions, Call.input.frameworkConfig[1], TemplateKeys) # ""

----------------------------------------------------------------------------
(* Claims about the validator (checked under SpecValidator) *)

ValidatorReturned == validatorCall # None /\ validatorCall[1].outcome = "returned"
Validation == validatorCall[1].result

\* C9: validateCode sets isProductionReady to true if and only if the
\* overall score is at least 0.8, the syntax check reported no issue of
\* severity error and the style check reported no critical issue; a syntax
\* issue of lower severity does not by itself block production readiness.
C9_ReadyIffScoreAndNoErrors ==
  ValidatorReturned =>
    (Validation.isProductionReady <=>
       /\ Validation.overallScore >= ProductionScore
       /\ CountWhere(Validation.syntaxCheck.issues, IsError) = 0
       /\ Validation.styleCheck.criticalIssues = 0)

----------------------------------------------------------------------------
(* Claims about the stage entry points (checked under Spec) *)

AnalyzerCalled == analyzerCall # None
MapperCalled == mapperCall # None
ValidatorCalled == validatorCall # None
Outcomes == {"returned", "threw"}

\* what each entry point needs, read off the fields that the call ran on
AnalyzerSupplied ==
  /\ analyzerCall[1].input.designTree # None
  /\ analyzerCall[1].input.flattenedNodes # <<>>
MapperSupplied ==
  /\ mapperCall[1].input.edsLibrary # None
  /\ mapperCall[1].input.figmaComponents # <<>>
OrchestratorSupplied ==
  /\ Call.input.frameworkConfig # None
  /\ \E i \in DOMAIN Call.request.mappingIds, j \in DOMAIN Call.input.mappings :
       Call.input.mappings[j].id = Call.request.mappingIds[i]
ValidatorSupplied == validatorCall[1].input # None

\* C3: a stage entry point returns a result only when its prerequisites
\* were supplied before the call, and throws when they were not:
\* analyzeDesign needs a design tree and a non-empty node list, mapComponents
\* a loaded library and a non-empty component list, generateCode a framework
\* config and a requested id that matches a mapping, validateCode a
\* generation result.
C3_EntryPointsNeedPrerequisites ==
  /\ AnalyzerCalled =>
       /\ analyzerCall[1].outcome \in Outcomes
       /\ analyzerCall[1].outcome = "returned" => AnalyzerSupplied
       /\ ~AnalyzerSupplied => analyzerCall[1].outcome = "threw"
  /\ MapperCalled =>
       /\ mapperCall[1].outcome \in Outcomes
       /\ mapperCall[1].outcome = "returned" => MapperSupplied
       /\ ~MapperSupplied => mapperCall[1].outcome = "threw"
  /\ GenerationCalled =>
       /\ Call.outcome \in Outcomes
       /\ Call.outcome = "returned" => OrchestratorSupplied
       /\ ~OrchestratorSupplied => Call.outcome = "threw"
  /\ ValidatorCalled =>
       /\ validatorCall[1].outcome \in Outcomes
       /\ validatorCall[1].outcome = "returned" => ValidatorSupplied
       /\ ~ValidatorSupplied => validatorCall[1].outcome = "threw"

\* every entry point has been called: analyzeDesign and generateCode with
\* their prerequisites and a result, mapComponents with a library but no
\* component and validateCode before any initialize, both throwing
C3_Witness ==
  /\ AnalyzerCalled /\ MapperCalled /\ GenerationCalled /\ ValidatorCalled
  /\ AnalyzerSupplied /\ analyzerCall[1].outcome = "returned"
  /\ OrchestratorSupplied /\ Call.outcome = "returned"
  /\ mapperCall[1].input.edsLibrary # None /\ mapperCall[1].outcome = "threw"
  /\ ~ValidatorSupplied /\ validatorCall[1].outcome = "threw"
----------------------------------------------------------------------------
(* Claims about the name similarity (checked under SpecSimilarity) *)

SimilarityCalled ==
  helperCall # None /\ helperCall[1].method = "calculateNameSimilarity"
Similarity == helperCall[1]

\* C11 (as claimed): the similarity of a non-empty name to itself is 1,
\* also when the name has no letter and no digit.
C11_SelfSimilarityIsOne ==
  (SimilarityCalled /\ Similarity.name1 # <<>> /\ Similarity.name1 = Similarity.name2)
    => Similarity.result = FOne

\* the similarity as the second call computes it, with the arguments swapped
Swapped == calculateNameSimilarity(Similarity.name2, Similarity.name1)

\* C12: calculateNameSimilarity(a, b) = calculateNameSimilarity(b, a) for
\* all strings a and b, the empty string included.
C12_SimilarityIsSymmetric == SimilarityCalled => Similarity.result = Swapped

\* two names of different lengths that differ after cleaning and of which
\* none contains the other: the similarity comes from the edit distance
C12_Witness ==
  /\ SimilarityCalled
  /\ Len(Clean(Similarity.name1)) < Len(Clean(Similarity.name2))
  /\ FLess(FZero, Similarity.result)
  /\ FLess(Similarity.result, Frac(9, 10))
----------------------------------------------------------------------------
(* Claims about the confidence adjustment (checked under SpecConfidence) *)

ConfidenceCalled ==
  helperCall # None /\ helperCall[1].method = "calculateMappingConfidence"
Low == helperCall[1].mappings[1]
High == helperCall[1].mappings[2]
Mapped(mapping) == Len(mapping.propertyMappings)
Targets(mapping) == Cardinality(DOMAIN mapping.edsComponent.properties)
\* the average confidence of the property mappings, which exists when there
\* is one at least
AverageConfidence(mapping) ==
  FMul(FSum(Map(mapping.propertyMappings, LAMBDA pm : pm.confidence)),
       Frac(1, Mapped(mapping)))
\* the first mapping has under 30% of its target's properties mapped and the
\* second over 70%; both have the same base confidence and the same average
\* confidence of their property mappings
CoverageRaised ==
  /\ ConfidenceCalled
  /\ Low.confidence = High.confidence
  /\ Mapped(Low) > 0 /\ Mapped(High) > 0
  /\ AverageConfidence(Low) = AverageConfidence(High)
  /\ Targets(Low) > 0 /\ 10 * Mapped(Low) < 3 * Targets(Low)
  /\ Targets(High) > 0 /\ 10 * Mapped(High) > 7 * Targets(High)

\* C13: of two mappings equal in base confidence and in the average
\* confidence of their property mappings, one with under 30% and one with
\* over 70% of the target's properties mapped, the better covered one gets
\* a final confidence that is not lower.
C13_CoverageNeverLowersConfidence ==
  CoverageRaised =>
    ~FLess(helperCall[1].result[2].confidence, helperCall[1].result[1].confidence)

\* such a pair whose weighted confidence is neither capped at 1 nor at 0
C13_Witness ==
  /\ CoverageRaised
  /\ FLess(helperCall[1].result[1].confidence, helperCall[1].result[2].confidence)
  /\ FLess(FZero, helperCall[1].result[1].confidence)
  /\ FLess(helperCall[1].result[2].confidence, FOne)
----------------------------------------------------------------------------
(* Claims about the ids drawn on library load (checked under SpecMapper) *)

MapperLibrary == mapperCall[1].input.edsLibrary[1]
\* the position of the target of a mapping in the library
PositionIn(library, edsComponent) ==
  CHOOSE i \in DOMAIN library.components :
    /\ library.components[i] = edsComponent
    /\ \A j \in 1..(i - 1) : library.components[j] # edsComponent
\* what a run pairs: each source with the position of its target, the
\* property mappings and the final confidence
Pairing(library, ms) ==
  [i \in DOMAIN ms |->
     [source |-> ms[i].figmaComponent,
      target |-> PositionIn(library, ms[i].edsComponent),
      patternType |-> ms[i].patternType,
      propertyMappings |-> ms[i].propertyMappings,
      confidence |-> ms[i].confidence]]
\* the pairing of the run on the same components and patterns with a library
PairingWith(library) ==
  Pairing(library, MapAll(library, mapperCall[1].input.figmaComponents,
                          mapperCall[1].input.detectedPatterns))
\* the library of the call was loaded from this payload
LoadedFrom(libraryData) ==
  IsLibrary(libraryData)
  /\ \E stamp \in Stamps : EDSLibrary(libraryData, stamp) = MapperLibrary

\* C14: the run of mapComponents and a run on the same components, patterns
\* and library payload with other ids drawn on load pair the same sources
\* with the same positions of the library, with the same property mappings
\* and confidences.
C14_DrawnIdsDoNotAffectPairing ==
  MapperReturned =>
    \A libraryData \in LibraryData, stamp \in Stamps :
      LoadedFrom(libraryData) =>
        PairingWith(EDSLibrary(libraryData, stamp))
          = Pairing(MapperLibrary, MappingResult.mappings)

\* a run on the library whose components carry no id that maps a component
\* to the second of them, with a property mapping
C14_Witness ==
  /\ MapperReturned
  /\ LoadedFrom(LibAnonymous)
  /\ EDSLibrary(LibAnonymous, 1).components # EDSLibrary(LibAnonymous, 2).components
  /\ \E i \in DOMAIN MappingResult.mappings :
       /\ PositionIn(MapperLibrary, MappingResult.mappings[i].edsComponent) = 2
       /\ MappingResult.mappings[i].propertyMappings # <<>>
----------------------------------------------------------------------------
(* Claims about the mapping of one button (checked under SpecMapper) *)

\* the patterns that the analyzer detected on the only component
PatternsOnOnly ==
  PatternsOn(mapperCall[1].input.detectedPatterns, SourceComponents[1])
\* the entries of the library whose type is "button"
ButtonEntries == {i \in DOMAIN MapperLibrary.components :
                    MapperLibrary.components[i].type = W_button}
\* mapComponents returned for one component that the analyzer detected as a
\* button, with a library that has one button
OneButtonDetected ==
  /\ MapperReturned
  /\ Len(SourceComponents) = 1
  /\ \E i \in DOMAIN PatternsOnOnly : PatternsOnOnly[i].type = T_button
  /\ Cardinality(ButtonEntries) = 1
\* the same, the button being the most confident pattern on the component
\* (the first of the most confident ones)
OneButtonMapped ==
  OneButtonDetected /\ TopPattern(PatternsOnOnly).type = T_button
\* exactly one mapping, of pattern type "button" and confidence above 0.7
IsOneButtonMapping(ms) ==
  /\ Len(ms) = 1
  /\ ms[1].patternType = T_button
  /\ FLess(Frac(7, 10), ms[1].confidence)

\* C15 (as claimed): one component detected as a button and a library with
\* one button give exactly one mapping, of pattern type "button", with a
\* final confidence above 0.7, whatever properties the button declares.
C15_AsClaimed == OneButtonDetected => IsOneButtonMapping(MappingResult.mappings)

\* C15 (amended): one component whose most confident detected pattern is a
\* button and a library with one button give exactly one mapping, of
\* pattern type "button", with a final confidence above 0.7, whatever
\* properties the button of the library declares.
C15_OneButtonOneMapping ==
  OneButtonMapped => IsOneButtonMapping(MappingResult.mappings)

\* the least favourable case: a button detected by its shape (0.85), one
\* property mapped at 0.8 out of four: 0.51 + 0.32 - 0.1 = 0.73
C15_Witness ==
  /\ OneButtonMapped
  /\ MappingResult.mappings[1].confidence = Frac(73, 100)
----------------------------------------------------------------------------
(* Claims about the detectors (checked under SpecAnalyzer) *)

\* the Figma file that the analyzed design was parsed from
AnalyzedFile == analyzerCall[1].input.designTree[1].document
RawTextChildren(json, i) ==
  {j \in 1..json.n : json.parent[j] = i /\ json.kind[j].type = "TEXT"}
IsVisibleSolid(paint) ==
  /\ Has(paint, "type") /\ paint.type = "SOLID"
  /\ ~(Has(paint, "visible") /\ paint.visible = FALSE)
\* node i of the file is named as a button, has a corner radius, a visible
\* solid fill and one TEXT child, which has a `characters` field
IsButtonNode(json, i) ==
  /\ NameHas(json.kind[i].name, W_button)
  /\ Has(json.kind[i], "cornerRadius")
  /\ Has(json.kind[i], "fills")
  /\ \E k \in DOMAIN json.kind[i].fills : IsVisibleSolid(json.kind[i].fills[k])
  /\ Cardinality(RawTextChildren(json, i)) = 1
  /\ \A j \in RawTextChildren(json, i) : Has(json.kind[j], "characters")
CharactersOf(json, i) ==
  json.kind[CHOOSE j \in RawTextChildren(json, i) : TRUE].characters
ButtonPatternsOn(i) ==
  {k \in DOMAIN ReturnedPatterns :
     ReturnedPatterns[k].type = T_button /\ ReturnedPatterns[k].nodeId = i}
\* one button pattern on node i, of confidence 0.9 or more, labelled c
IsTheButtonPattern(i, c) ==
  /\ Cardinality(ButtonPatternsOn(i)) = 1
  /\ \A k \in ButtonPatternsOn(i) :
       /\ ReturnedPatterns[k].confidence >= 90
       /\ ReturnedPatterns[k].properties.label = c

\* C16 (as claimed): a node named as a button, with a corner radius, a
\* visible solid fill and one TEXT child of characters c, yields exactly one
\* button pattern on that node, of confidence 0.9 or more and of label c.
C16_AsClaimed ==
  AnalyzerReturned =>
    \A i \in 1..AnalyzedFile.n :
      IsButtonNode(AnalyzedFile, i) => IsTheButtonPattern(i, CharactersOf(AnalyzedFile, i))

\* C16 (amended): the same when the characters c are not the empty string.
C16_ButtonPatternWithLabel ==
  AnalyzerReturned =>
    \A i \in 1..AnalyzedFile.n :
      (IsButtonNode(AnalyzedFile, i) /\ CharactersOf(AnalyzedFile, i) # "") =>
        IsTheButtonPattern(i, CharactersOf(AnalyzedFile, i))

\* a button node labelled Submit got its pattern, of confidence 0.95
C16_Witness ==
  /\ AnalyzerReturned
  /\ \E i \in 1..AnalyzedFile.n :
       /\ IsButtonNode(AnalyzedFile, i)
       /\ CharactersOf(AnalyzedFile, i) = "Submit"
       /\ \E k \in ButtonPatternsOn(i) :
            /\ ReturnedPatterns[k].confidence = ButtonConfidence + 10
            /\ ReturnedPatterns[k].properties.label = "Submit"
----------------------------------------------------------------------------
(* Claims about extractStyles (checked under SpecParser) *)

\* the records of this.extractedStyles of one type on one node
RecordsOn(node, type) ==
  {k \in DOMAIN extractedStyles :
     extractedStyles[k].nodeId = node.id /\ extractedStyles[k].type = type}
\* how many entries of the list `key` of the node are visible
VisibleCount(node, key) ==
  IF Has(node.properties, key)
  THEN Cardinality({i \in DOMAIN node.properties[key] : IsVisible(node.properties[key][i])})
  ELSE 0
TextCount(node) ==
  IF node.type = "TEXT" /\ Has(node.properties, "fontSize") THEN 1 ELSE 0

\* C17: after the first successful parseJson every node has one style
\* record per visible fill, one if it is a text with a font size, and one
\* per visible effect; a node with k visible fills has k fill records even
\* when several of them have the same fill type.
C17_OneRecordPerVisibleFill ==
  (ParserReturned /\ parserCalls = 1) =>
    \A i \in DOMAIN flattenedNodes :
      /\ Cardinality(RecordsOn(flattenedNodes[i], "FILL"))
           = VisibleCount(flattenedNodes[i], "fills")
      /\ Cardinality(RecordsOn(flattenedNodes[i], "TEXT")) = TextCount(flattenedNodes[i])
      /\ Cardinality(RecordsOn(flattenedNodes[i], "EFFECT"))
           = VisibleCount(flattenedNodes[i], "effects")
----------------------------------------------------------------------------
(* Claims about the style validation (checked under SpecAnalyzer) *)

AnalyzedNodes == analyzerCall[1].input.flattenedNodes
\* the colours that the design uses, as [key, id], and the nodes of a colour
UsedColors == Range(Flat(Map(AnalyzedNodes, NodeColors)))
UsedKeys == {entry.key : entry \in UsedColors}
NodesOfColor(key) == {entry.id : entry \in {e \in UsedColors : e.key = key}}
\* exactly two colours, within the threshold of one another, with no node
\* that uses both
TwoSimilarColors ==
  /\ Cardinality(UsedKeys) = 2
  /\ \A c1 \in UsedKeys, c2 \in UsedKeys :
       c1 # c2 => /\ IsSimilarColor(c1, c2)
                  /\ NodesOfColor(c1) \cap NodesOfColor(c2) = {}
SimilarWarnings ==
  {k \in DOMAIN ReturnedIssues :
     /\ ReturnedIssues[k].type = "color"
     /\ ReturnedIssues[k].severity = "warning"
     /\ ReturnedIssues[k].id[1] = "color-similar"}

\* C18: when the design uses exactly two distinct solid colours, on
\* different nodes, at a distance below 20, the colour validation emits
\* exactly one similar-colours warning, which lists both colours and every
\* node that uses one of them.
C18_OneSimilarColorsWarning ==
  (AnalyzerReturned /\ TwoSimilarColors) =>
    /\ Cardinality(SimilarWarnings) = 1
    /\ \A k \in SimilarWarnings :
         /\ Range(ReturnedIssues[k].details.colors) = UsedKeys
         /\ Len(ReturnedIssues[k].details.colors) = 2
         /\ Range(ReturnedIssues[k].details.affectedNodes)
              = UNION {NodesOfColor(c) : c \in UsedKeys}

\* the two reds on two texts got their warning
C18_Witness ==
  /\ AnalyzerReturned
  /\ TwoSimilarColors
  /\ UsedKeys = {ColorKey(SolidRed.color), ColorKey(NearRed.color)}
  /\ \E k \in SimilarWarnings :
       Range(ReturnedIssues[k].details.affectedNodes) = {2, 3}
\* the spacing scale of the specification
SpecifiedSpacing ==
  {Px(0), Px(4), Px(8), Px(12), Px(16), Px(20), Px(24), Px(32), Px(40), Px(48),
   Px(64), Px(80), Px(96), Px(128)}
ItemSpacings ==
  {AnalyzedNodes[i].properties.itemSpacing :
     i \in {j \in DOMAIN AnalyzedNodes : Has(AnalyzedNodes[j].properties, "itemSpacing")}}
SpacingInfos(v) ==
  {k \in DOMAIN ReturnedIssues :
     /\ ReturnedIssues[k].type = "spacing"
     /\ ReturnedIssues[k].severity = "info"
     /\ ReturnedIssues[k].details.spacing = <<v>>}
Distance(a, b) == IF a < b THEN b - a ELSE a - b
IsNearestIn(scale, v, s) ==
  s \in scale /\ \A other \in scale : Distance(s, v) <= Distance(other, v)

\* C19: the spacing validation emits an info issue for an item spacing v if
\* and only if v is not in {0,4,8,12,16,20,24,32,40,48,64,80,96,128}, and
\* the value it suggests is the member of that scale nearest to v.
C19_InfoIffOffTheScale ==
  AnalyzerReturned =>
    \A v \in ItemSpacings :
      /\ SpacingInfos(v) # {} <=> v \notin SpecifiedSpacing
      /\ \A k \in SpacingInfos(v) :
           IsNearestIn(SpecifiedSpacing, v, ReturnedIssues[k].details.nearest[1])
----------------------------------------------------------------------------
(* Claims about the overall score (checked under SpecValidator) *)

\* C20: the overallScore that validateCode returns is 0.5 x the syntax
\* score + 0.3 x the style score + 0.2 x the responsiveness score of the
\* same result, and lies between 0 and 1 (scores in thousandths, the
\* overall score in ten-thousandths).
C20_OverallIsWeightedSum ==
  ValidatorReturned =>
    /\ Validation.overallScore
         = 5 * Validation.syntaxCheck.score + 3 * Validation.styleCheck.score
           + 2 * Validation.responsivenessCheck.score
    /\ 0 <= Validation.overallScore
    /\ Validation.overallScore <= 10000

\* a result whose three scores differ from one another
C20_Witness ==
  /\ ValidatorReturned
  /\ Validation.syntaxCheck.score # Validation.styleCheck.score
  /\ Validation.styleCheck.score # Validation.responsivenessCheck.score
  /\ Validation.syntaxCheck.score # Validation.responsivenessCheck.score
  /\ Validation.overallScore > 0
  /\ Validation.overallScore < 10000
----------------------------------------------------------------------------
(* Claims about the failures of the mapper (checked under SpecMapper) *)

LoadThrew == libraryCall # None /\ libraryCall[1].outcome = "threw"
MapperThrew == mapperCall # None /\ mapperCall[1].outcome = "threw"

\* C21: after a loadEDSLibrary that threw, the library in effect is the one
\* that was loaded before the call (none if there was none); after a
\* mapComponents that threw, for want of a library or of components, the
\* component mappings are what they were before the call.
C21_FailedCallsChangeNothing ==
  /\ LoadThrew => edsLibrary = libraryCall[1].before
  /\ MapperThrew =>
       /\ CannotMap(mapperCall[1].input.edsLibrary, mapperCall[1].input.figmaComponents)
       /\ componentMappings = mapperCall[1].before

\* a load threw with a library in effect, and a mapComponents threw with
\* mappings of an earlier call in place
C21_Witness ==
  /\ LoadThrew
  /\ libraryCall[1].before # None
  /\ MapperThrew
  /\ mapperCall[1].before # <<>>
----------------------------------------------------------------------------
(* Claims about the data handed from stage to stage (checked under Spec) *)

\* C22: a call of analyzeDesign, mapComponents, generateCode or
\* validateCode leaves what the agent was initialized with as it was: the
\* tree, nodes, styles and components of the analyzer; the components, the
\* nodes and the patterns of the mapper, with their confidences and their
\* order; the mappings of the orchestrator; the generated code of the
\* validator.
C22_StagesKeepTheirInputs ==
  [][/\ analyzerCalls' # analyzerCalls =>
          UNCHANGED <<aDesignTree, aFlattenedNodes, aStyles, aComponents>>
     /\ mapperCall' # mapperCall =>
          UNCHANGED <<figmaComponents, figmaNodes, detectedPatterns>>
     /\ orchestratorCall' # orchestratorCall => UNCHANGED mappings
     /\ validatorCalls' # validatorCalls => UNCHANGED generatedCode]_vars

\* the four calls returned, the mapper on patterns that are not in the
\* order of their confidences
C22_Witness ==
  /\ AnalyzerReturned
  /\ MapperReturned
  /\ detectedPatterns # DetectedSortedInPlace(detectedPatterns)
  /\ GenerationCalled
  /\ Call.outcome = "returned"
  /\ ValidatorReturned
----------------------------------------------------------------------------
(* Claims about the confidences (checked under SpecAnalyzer) *)

NodeOfPattern(pattern) ==
  AnalyzedNodes[CHOOSE i \in DOMAIN AnalyzedNodes : AnalyzedNodes[i].id = pattern.nodeId]
\* the confidence of the specification, in hundredths
SpecifiedButtonConfidence(node) ==
  LET byName == IF toLowerCase(node.name) = W_button THEN 50
                ELSE IF NameHas(node.name, W_button) \/ NameHas(node.name, W_btn) THEN 30
                ELSE 0
      byRadius == IF Has(node.properties, "cornerRadius") THEN 20 ELSE 0
      byText == IF TextChild(AnalyzedNodes, node) # None THEN 30 ELSE 0
  IN Min(100, byName + byRadius + byText)

\* C23: the confidence of a detected button pattern is 0.5 for a node named
\* exactly "button", 0.3 for a name that matches in part, otherwise 0, plus
\* 0.2 for a corner radius, plus 0.3 for a text child, capped at 1.
C23_ButtonConfidenceAsSpecified ==
  AnalyzerReturned =>
    \A k \in DOMAIN ReturnedPatterns :
      ReturnedPatterns[k].type = T_button =>
        ReturnedPatterns[k].confidence
          = SpecifiedButtonConfidence(NodeOfPattern(ReturnedPatterns[k]))
----------------------------------------------------------------------------
(* Claims about the final confidence (checked under SpecConfidence) *)

\* 0.6 x base + 0.4 x average
Blend(base, average) == FAdd(FMul(base, Frac(6, 10)), FMul(average, Frac(4, 10)))
\* raised by 0.1 above 70% of coverage, lowered by 0.1 below 30%
Nudged(n, targets, confidence) ==
  IF 10 * n > 7 * targets THEN FMin(FOne, FAdd(confidence, Frac(1, 10)))
  ELSE IF 10 * n < 3 * targets THEN FMax(FZero, FAdd(confidence, Frac(-1, 10)))
  ELSE confidence
InUnitRange(confidence) == ~FLess(confidence, FZero) /\ ~FLess(FOne, confidence)
\* the average of the property confidences, 0 when there is none
AverageOrZero(mapping) ==
  IF Mapped(mapping) = 0 THEN FZero ELSE AverageConfidence(mapping)
ConfidenceCalls == {1, 2}
Given(i) == helperCall[1].mappings[i]
Final(i) == helperCall[1].result[i].confidence

\* C24 (as claimed): the final confidence of every mapping is 0.6 x its base
\* confidence + 0.4 x the average confidence of its property mappings,
\* raised by 0.1 above 70% of coverage and lowered by 0.1 below 30%, and is
\* in [0, 1], also with no property mapping or no target property.
C24_AsClaimed ==
  ConfidenceCalled =>
    \A i \in ConfidenceCalls :
      /\ InUnitRange(Final(i))
      /\ Targets(Given(i)) > 0 =>
           Final(i) = Nudged(Mapped(Given(i)), Targets(Given(i)),
                             Blend(Given(i).confidence, AverageOrZero(Given(i))))

\* C24 (amended): with one property mapping or more the final confidence is
\* the blend, with none it is the base confidence; either is then raised or
\* lowered by the coverage of a target that declares properties; a target
\* without properties raises a mapping that has property mappings and
\* leaves one that has none; the result is in [0, 1].
C24_BlendedWhenPropertiesMapped ==
  ConfidenceCalled =>
    \A i \in ConfidenceCalls :
      LET start == IF Mapped(Given(i)) > 0
                   THEN Blend(Given(i).confidence, AverageConfidence(Given(i)))
                   ELSE Given(i).confidence
      IN /\ InUnitRange(Final(i))
         /\ Targets(Given(i)) > 0 =>
              Final(i) = Nudged(Mapped(Given(i)), Targets(Given(i)), start)
         /\ (Targets(Given(i)) = 0 /\ Mapped(Given(i)) > 0) =>
              Final(i) = FMin(FOne, FAdd(start, Frac(1, 10)))
         /\ (Targets(Given(i)) = 0 /\ Mapped(Given(i)) = 0) => Final(i) = start

\* a mapping without property mappings onto a target with properties, which
\* keeps its base confidence less 0.1, next to a blended one that is raised
C24_Witness ==
  /\ ConfidenceCalled
  /\ Mapped(Given(1)) = 0
  /\ Targets(Given(1)) > 0
  /\ Given(1).confidence = FOne
  /\ Final(1) = Frac(9, 10)
  /\ Mapped(Given(2)) = 3
  /\ Targets(Given(2)) = 4
  /\ Given(2).confidence = Frac(1, 2)
  /\ AverageConfidence(Given(2)) = Frac(4, 10)
  /\ Final(2) = Frac(56, 100)
----------------------------------------------------------------------------
(* Claims about the pattern pass (checked under SpecMapper) *)

\* the patterns of the call on a component, and the most confident of them
FoundOn(component) == PatternsOn(mapperCall[1].input.detectedPatterns, component)
TopPatterns(found) ==
  {p \in Range(found) : \A q \in Range(found) : q.confidence <= p.confidence}
\* the library components of the type of a pattern, letter case ignored
Qualifying(pattern) ==
  {e \in Range(MapperLibrary.components) : toLowerCase(e.type) = toLowerCase(pattern.type)}
PatternMappingsOf(component) ==
  {k \in MappingsOf(component) : MappingResult.mappings[k].patternType # W_unknown}
\* the mapping is made with the pattern: its type, a target of that type and,
\* among the targets of that type, one of the most similar name
MadeWith(mapping, pattern) ==
  /\ mapping.patternType = pattern.type
  /\ mapping.edsComponent \in Qualifying(pattern)
  /\ \A e \in Qualifying(pattern) :
       ~FLess(calculateNameSimilarity(mapping.figmaComponent.name, mapping.edsComponent.name),
              calculateNameSimilarity(mapping.figmaComponent.name, e.name))

\* C25: a source component with one pattern or more is matched by a most
\* confident pattern of its own: when library components of the type of
\* that pattern exist (letter case ignored), the component gets one
\* pattern mapping, onto one of them whose name is the most similar to its
\* own; when none exists for any of its most confident patterns, it gets no
\* pattern mapping.
C25_MatchedByTopPattern ==
  MapperReturned =>
    \A i \in DOMAIN SourceComponents :
      LET component == SourceComponents[i]
          tops == TopPatterns(FoundOn(component))
      IN FoundOn(component) # <<>> =>
           /\ \A k \in PatternMappingsOf(component) :
                \E p \in tops : MadeWith(MappingResult.mappings[k], p)
           /\ (\A p \in tops : Qualifying(p) # {}) =>
                Cardinality(PatternMappingsOf(component)) = 1
           /\ (\A p \in tops : Qualifying(p) = {}) => PatternMappingsOf(component) = {}

\* a component with a button pattern and a more confident input pattern,
\* mapped onto the second of two inputs, the one of its own name
C25_Witness ==
  /\ MapperReturned
  /\ \E i \in DOMAIN SourceComponents :
       /\ Cardinality({p.type : p \in Range(FoundOn(SourceComponents[i]))}) = 2
       /\ Cardinality(TopPatterns(FoundOn(SourceComponents[i]))) = 1
       /\ \E k \in PatternMappingsOf(SourceComponents[i]) :
            /\ MappingResult.mappings[k].patternType = T_input
            /\ MappingResult.mappings[k].edsComponent = MapperLibrary.components[2]
            /\ Cardinality(Qualifying([type |-> T_input])) = 2
----------------------------------------------------------------------------
(* Claims about the name similarity (checked under SpecSimilarity) *)

RECURSIVE EditDistance(_, _)
\* the Levenshtein distance by its definition: the least number of
\* insertions, deletions and substitutions that turn s into t
EditDistance(s, t) ==
  IF s = <<>> THEN Len(t)
  ELSE IF t = <<>> THEN Len(s)
  ELSE Min(Min(EditDistance(Tail(s), t) + 1, EditDistance(s, Tail(t)) + 1),
           EditDistance(Tail(s), Tail(t)) + (IF Head(s) = Head(t) THEN 0 ELSE 1))
Normal1 == Clean(helperCall[1].name1)
Normal2 == Clean(helperCall[1].name2)
BothNormalNonEmpty == SimilarityCalled /\ Normal1 # <<>> /\ Normal2 # <<>>

\* C26: for two names whose normalized forms are not empty,
\* calculateNameSimilarity returns 1 when the forms are equal, 0.9 when one
\* contains the other, otherwise 1 - d / max(length) with d the Levenshtein
\* distance of the forms; the result is in [0, 1].
C26_SimilarityByEditDistance ==
  BothNormalNonEmpty =>
    /\ helperCall[1].result
         = (IF Normal1 = Normal2 THEN FOne
            ELSE IF includes(Normal1, Normal2) \/ includes(Normal2, Normal1)
            THEN Frac(9, 10)
            ELSE Frac(Max(Len(Normal1), Len(Normal2)) - EditDistance(Normal1, Normal2),
                      Max(Len(Normal1), Len(Normal2))))
    /\ ~FLess(helperCall[1].result, FZero)
    /\ ~FLess(FOne, helperCall[1].result)

\* two forms of three letters, neither inside the other, two edits apart
C26_Witness ==
  /\ BothNormalNonEmpty
  /\ Len(Normal1) = 3
  /\ Len(Normal2) = 3
  /\ EditDistance(Normal1, Normal2) = 2
  /\ helperCall[1].result = Frac(1, 3)
----------------------------------------------------------------------------
(* Claims about repeated parses (checked under SpecParser) *)

FlattenedIds == {flattenedNodes[i].id : i \in DOMAIN flattenedNodes}
\* the records that the nodes of the current document give on their own
StylesOfCurrentNodes == ExtractAll(EmptyObject, flattenedNodes)

\* C27: after a successful parseJson, the first or a later one on the same
\* parser, every style record belongs to a node of the current flattened
\* list, and the records are those of the document just parsed: none of an
\* earlier document remains.
C27_StylesOfTheLastDocumentOnly ==
  ParserReturned =>
    /\ \A k \in DOMAIN extractedStyles : extractedStyles[k].nodeId \in FlattenedIds
    /\ extractedStyles = StylesOfCurrentNodes
----------------------------------------------------------------------------
(* Claims about repeated validations (checked under SpecValidator) *)

\* the issues that the three checks of the recorded call found
FoundByTheCall ==
  Validation.syntaxCheck.issues \o Validation.styleCheck.issues
  \o Validation.responsivenessCheck.issues

\* what holds of the result and of getValidationIssues() when a call returns
IssuesOfThisCallOnly ==
  /\ Validation.issues = FoundByTheCall
  /\ validationIssues = FoundByTheCall
  /\ Validation.success <=> (CountWhere(FoundByTheCall, IsError) = 0)

\* C28: when a validateCode returns, a second one without initialize in
\* between included, result.issues and getValidationIssues() are exactly
\* the issues that the syntax, style and responsiveness checks of that call
\* found, and result.success says that none of them is an error.
C28_IssuesOfThisCallOnly ==
  [][(validatorCalls' # validatorCalls /\ ValidatorReturned') => IssuesOfThisCallOnly']_vars
----------------------------------------------------------------------------
(* Claims about fillTemplate (checked under SpecTemplate) *)

TemplateFilled == helperCall # None /\ helperCall[1].method = "fillTemplate"
ValueOf(variables, key) ==
  IF \E i \in DOMAIN variables : variables[i].key = key
  THEN (CHOOSE e \in Range(variables) : e.key = key).value
  ELSE <<>>
\* The template with each of its placeholders replaced by the value of its
\* variable as it is, or by nothing when the variable has no value.
RECURSIVE Substituted(_, _)
Substituted(template, variables) ==
  IF template = <<>> THEN <<>>
  ELSE IF MatchLength(template) > 0
  THEN ValueOf(variables, SubSeq(template, 3, MatchLength(template) - 2))
       \o Substituted(Drop(template, MatchLength(template)), variables)
  ELSE <<Head(template)>> \o Substituted(Tail(template), variables)

\* C29: fillTemplate removes only the placeholders of the template that
\* have no value; every value put in for a placeholder is in the output
\* unchanged, double-brace interpolations such as {{ label }} included.
C29_ValuesAppearUnchanged ==
  TemplateFilled =>
    helperCall[1].result = Substituted(helperCall[1].template, helperCall[1].variables)
----------------------------------------------------------------------------
(* Claims about the mapper and the generators together (checked under      *)
(* SpecMapper: the generators read the mappings that mapComponents made)   *)

\* the mappings of the pattern pass for the four pattern types with a snippet
SnippetMappings ==
  {k \in DOMAIN MappingResult.mappings :
     MappingResult.mappings[k].patternType \in {T_button, T_input, T_card, T_navigation}}

\* C30: every mapping that the pattern pass makes for a pattern of type
\* button, input, card or navigation gets the imports and the markup of
\* that type from the generators, never the generic ones, whatever the
\* letter case of the type of the library component.
C30_RenderedWithItsFamily ==
  MapperReturned =>
    \A k \in SnippetMappings :
      /\ generateReactJSX(MappingResult.mappings[k])
           = Some(MappingResult.mappings[k].patternType)
      /\ generateReactImports(MappingResult.mappings[k])
           = Some(MappingResult.mappings[k].patternType)
====
